---- MODULE Spec2Model ----
(***************************************************************************)
(* Model of the canvas document engine: WorkspaceService                   *)
(* (backend/app/services/workspace_service.py) over the element model of   *)
(* backend/app/models/elements.py.                                         *)
(*                                                                         *)
(* A Python dict (insertion ordered) is a sequence of [key, val] entries.  *)
(* Every engine method is an operator from a service state (a record of    *)
(* the fields of WorkspaceService) to [st |-> new state, ret |-> result];  *)
(* the actions apply them to the variables.  Coordinates are integers      *)
(* (Python floats are exact on them).                                      *)
(***************************************************************************)
EXTENDS Integers, Sequences, FiniteSets, TLC

VARIABLES elements, component_definitions, assets, next_z_index, history,
          history_index, id_counter, hung, ops, last, prev, run, drag, net

vars == <<elements, component_definitions, assets, next_z_index, history,
          history_index, id_counter, hung, ops, last, prev, run, drag, net>>

\* ------------------------------------------------------------------ bounds
\* ids that generate_id may hand out in one behaviour
MaxIds == 4
\* engine calls in one behaviour
MaxOps == 3
\* engine calls after the starting scene in the focused specifications
MaxSceneOps == 3
\* engine calls after the starting scene in the history specification
MaxHistoryOps == 3
\* engine calls after the starting scene in the component specification
MaxComponentOps == 1
\* engine calls after the starting scene in the presentation specification
MaxPresentOps == 1

\* ------------------------------------------------------------------ values
\* Python None, for an id (parentId) and for presentationOrder
None == 0
NoOrder == -1
\* an id no element ever has (a stale reference held by a client)
UnknownId == MaxIds + 1

ContainerTypes == {"group", "frame"}

\* ------------------------------------------------------------------ dict
Keys(d) == {d[i].key : i \in DOMAIN d}

Has(d, k) == k \in Keys(d)

Get(d, k) == d[CHOOSE i \in DOMAIN d : d[i].key = k].val

Put(d, k, v) ==
    IF Has(d, k)
    THEN [i \in DOMAIN d |-> IF d[i].key = k THEN [key |-> k, val |-> v] ELSE d[i]]
    ELSE Append(d, [key |-> k, val |-> v])

Del(d, k) == SelectSeq(d, LAMBDA e : e.key # k)

RECURSIVE DelAll(_, _)
DelAll(d, ks) ==
    IF ks = <<>> THEN d ELSE DelAll(Del(d, Head(ks)), Tail(ks))

\* dict equality of Python: the same keys with the same values, in any order
SameDict(d1, d2) == {d1[i] : i \in DOMAIN d1} = {d2[i] : i \in DOMAIN d2}

RECURSIVE SetToSeq(_)
SetToSeq(s) ==
    IF s = {} THEN <<>>
    ELSE LET m == CHOOSE a \in s : \A b \in s : a <= b
         IN <<m>> \o SetToSeq(s \ {m})

SeqToSet(q) == {q[i] : i \in DOMAIN q}

MinOf(s) == CHOOSE a \in s : \A b \in s : a <= b
MaxOf(s) == CHOOSE a \in s : \A b \in s : a >= b

\* sorted(entries, key=zIndex): stable insertion sort
RECURSIVE InsertByZ(_, _)
InsertByZ(sorted, e) ==
    IF sorted = <<>> THEN <<e>>
    ELSE LET l == sorted[Len(sorted)]
         IN IF l.val.zIndex <= e.val.zIndex
            THEN Append(sorted, e)
            ELSE Append(InsertByZ(SubSeq(sorted, 1, Len(sorted) - 1), e), l)

RECURSIVE SortByZ(_)
SortByZ(q) ==
    IF q = <<>> THEN <<>>
    ELSE InsertByZ(SortByZ(SubSeq(q, 1, Len(q) - 1)), q[Len(q)])

\* list.insert(i, e) with a 0-based i, as Python clamps it
InsertAt(q, i, e) ==
    LET j == IF i > Len(q) THEN Len(q) ELSE IF i < 0 THEN 0 ELSE i
    IN SubSeq(q, 1, j) \o <<e>> \o SubSeq(q, j + 1, Len(q))

\* list.pop(i) with a 0-based i
PopAt(q, i) == SubSeq(q, 1, i) \o SubSeq(q, i + 2, Len(q))

\* ------------------------------------------------------------------ elements
\* models/elements.py: Element and the fields of its variants the engine reads
Element(id, type, x, y, w, h, parent) ==
    [id |-> id, element_type |-> type, x |-> x, y |-> y, width |-> w,
     height |-> h, zIndex |-> 0, parentId |-> parent,
     presentationOrder |-> NoOrder, content |-> "", definition_id |-> None,
     properties |-> <<>>]

\* ------------------------------------------------------------------ service
\* WorkspaceService.__init__ before its first _commit_history
Fields0 ==
    [elements |-> <<>>, component_definitions |-> <<>>, assets |-> {},
     next_z_index |-> 1, history |-> <<>>, history_index |-> -1,
     id_counter |-> 0]

\* a faulty variant of _commit_history: appends without discarding the redo branch
commit_history_keep_future(S) ==
    [S EXCEPT !.history = Append(S.history, S.elements),
              !.history_index = S.history_index + 1]

\* a faulty variant of _commit_history: the snapshot is the live dict and not
\* a copy of it, so the entry at the cursor has followed the edits made in
\* place since it was appended
commit_history_shared(S) ==
    LET h == IF S.history_index < Len(S.history) - 1
             THEN SubSeq(S.history, 1, S.history_index + 1)
             ELSE S.history
        followed == [i \in DOMAIN h |-> IF i = Len(h) THEN S.elements ELSE h[i]]
    IN [S EXCEPT !.history = Append(followed, S.elements),
                 !.history_index = S.history_index + 1]

\* a faulty variant of _commit_history: the redo branch is cut one entry too
\* short, so the cursor ends one past the last entry
commit_history_cuts_short(S) ==
    LET h == IF S.history_index < Len(S.history) - 1
             THEN SubSeq(S.history, 1, S.history_index)
             ELSE S.history
    IN [S EXCEPT !.history = Append(h, S.elements),
                 !.history_index = S.history_index + 1]

\* WorkspaceService._commit_history; copy.deepcopy(self.elements) is the
\* collection as a value
commit_history(S) ==
    LET h == IF S.history_index < Len(S.history) - 1
             THEN SubSeq(S.history, 1, S.history_index + 1)
             ELSE S.history
    IN [S EXCEPT !.history = Append(h, S.elements),
                 !.history_index = S.history_index + 1]

\* the state after construction
New == commit_history(Fields0)

\* what a call gives back: out is "ok" (a non-empty result), "none" (None or an
\* empty result), "raise" (an exception leaves the engine) or "hang" (the call
\* never returns); els are the keys of the returned elements, ids the returned
\* removed ids
Ret(out, els, ids) == [out |-> out, els |-> els, ids |-> ids]

Result(S, out, els, ids) == [st |-> S, ret |-> Ret(out, els, ids)]

\* a faulty variant of undo: moves the cursor without restoring the snapshot
undo_no_restore(S) ==
    IF S.history_index > 0
    THEN Result([S EXCEPT !.history_index = S.history_index - 1],
                "ok", Keys(S.elements), {})
    ELSE Result(S, "none", {}, {})

\* a faulty variant of undo: the catalogue and the asset records are taken
\* back with the collection
undo_resets_catalogue(S) ==
    IF S.history_index > 0
    THEN LET restored_state == S.history[S.history_index]
         IN Result([S EXCEPT !.history_index = S.history_index - 1,
                             !.elements = restored_state,
                             !.component_definitions = <<>>,
                             !.assets = {}],
                   "ok", Keys(restored_state), {})
    ELSE Result(S, "none", {}, {})

\* WorkspaceService.undo
undo(S) ==
    IF S.history_index > 0
    THEN LET restored_state == S.history[S.history_index]
         IN Result([S EXCEPT !.history_index = S.history_index - 1,
                             !.elements = restored_state],
                   "ok", Keys(restored_state), {})
    ELSE Result(S, "none", {}, {})

\* a faulty variant of redo: at the end of the log it returns the collection
\* instead of None
redo_returns_at_end(S) ==
    IF S.history_index < Len(S.history) - 1
    THEN LET restored_state == S.history[S.history_index + 2]
         IN Result([S EXCEPT !.history_index = S.history_index + 1,
                             !.elements = restored_state],
                   "ok", Keys(restored_state), {})
    ELSE Result(S, "ok", Keys(S.elements), {})

\* WorkspaceService.redo
redo(S) ==
    IF S.history_index < Len(S.history) - 1
    THEN LET restored_state == S.history[S.history_index + 2]
         IN Result([S EXCEPT !.history_index = S.history_index + 1,
                             !.elements = restored_state],
                   "ok", Keys(restored_state), {})
    ELSE Result(S, "none", {}, {})

\* a public method's tail: if <result>: self._commit_history()
CommitIf(r) ==
    IF r.ret.out = "ok" THEN [r EXCEPT !.st = commit_history(r.st)] ELSE r

\* elements.generate_id: uuid4, an id never handed out before
generate_id(S) == S.id_counter + 1

\* WorkspaceService.create_asset: the record is stored under its own fresh id;
\* asset data that does not validate gives None
create_asset(S, valid) ==
    IF valid
    THEN Result([S EXCEPT !.assets = S.assets \cup {generate_id(S)},
                          !.id_counter = generate_id(S)],
                "ok", {}, {})
    ELSE Result(S, "none", {}, {})

\* WorkspaceService.delete_asset
delete_asset(S, asset_id) ==
    IF asset_id \in S.assets
    THEN Result([S EXCEPT !.assets = S.assets \ {asset_id}], "ok", {}, {})
    ELSE Result(S, "none", {}, {})

\* WorkspaceService.add_element
add_element(S, element) ==
    [S EXCEPT !.elements = Put(S.elements, element.id,
                               [element EXCEPT !.zIndex = S.next_z_index]),
              !.next_z_index = S.next_z_index + 1]

\* TextElement.content when the payload names none
TextDefault == "Type something..."

\* the variant tags _create_element_internal knows
model_map == {"shape", "text", "frame", "image", "path", "component_instance"}

\* a faulty variant of _create_element_internal: the z-order is handed out
\* before the payload is validated
create_element_internal_z_first(S, payload) ==
    IF payload.element_type \notin model_map THEN Result(S, "none", {}, {})
    ELSE IF ~payload.valid
    THEN Result([S EXCEPT !.next_z_index = S.next_z_index + 1], "none", {}, {})
    ELSE LET id == IF payload.id # None THEN payload.id ELSE generate_id(S)
             new_element ==
                 [Element(id, payload.element_type, payload.x, payload.y,
                          payload.width, payload.height, payload.parentId)
                  EXCEPT !.definition_id = payload.definition_id,
                         !.content = IF payload.element_type = "text"
                                     THEN TextDefault ELSE ""]
             counted == IF payload.id # None THEN S.id_counter ELSE id
         IN Result(add_element([S EXCEPT !.id_counter = counted], new_element),
                   "ok", {id}, {})

\* WorkspaceService._create_element_internal; payload.valid says whether the
\* variant's pydantic model accepts the payload; the model's default_factory
\* makes an id only for a payload that carries none
create_element_internal(S, payload) ==
    IF payload.element_type \notin model_map THEN Result(S, "none", {}, {})
    ELSE IF ~payload.valid THEN Result(S, "none", {}, {})
    ELSE LET id == IF payload.id # None THEN payload.id ELSE generate_id(S)
             new_element ==
                 [Element(id, payload.element_type, payload.x, payload.y,
                          payload.width, payload.height, payload.parentId)
                  EXCEPT !.definition_id = payload.definition_id,
                         !.content = IF payload.element_type = "text"
                                     THEN TextDefault ELSE ""]
             counted == IF payload.id # None THEN S.id_counter ELSE id
         IN Result(add_element([S EXCEPT !.id_counter = counted], new_element),
                   "ok", {id}, {})

\* WorkspaceService.create_element_from_payload
create_element_from_payload(S, payload) ==
    CommitIf(create_element_internal(S, payload))

\* a faulty variant of update_element: snapshots whatever the commit flag says
update_element_always_commits(S, element_id, updates, commit) ==
    IF ~Has(S.elements, element_id) THEN Result(S, "none", {}, {})
    ELSE IF ~updates.valid THEN Result(S, "raise", {}, {})
    ELSE LET element == Get(S.elements, element_id)
             updated_element ==
                 [f \in DOMAIN element |->
                     IF f \in DOMAIN updates.fields THEN updates.fields[f]
                     ELSE element[f]]
             S1 == [S EXCEPT !.elements = Put(S.elements, element_id, updated_element)]
         IN Result(commit_history(S1), "ok", {element_id}, {})

\* the comprehension of create_elements_batch: every payload in turn through
\* _create_element_internal, keeping the elements that were created
RECURSIVE BatchLoop(_, _, _)
BatchLoop(S, payloads, created) ==
    IF payloads = <<>> THEN [st |-> S, created |-> created]
    ELSE LET r == create_element_internal(S, Head(payloads))
         IN BatchLoop(r.st, Tail(payloads),
                      IF r.ret.out = "ok" THEN created \cup r.ret.els ELSE created)

\* the loop of the faulty variant below
RECURSIVE BatchLoopCommitting(_, _, _)
BatchLoopCommitting(S, payloads, created) ==
    IF payloads = <<>> THEN [st |-> S, created |-> created]
    ELSE LET r == create_element_from_payload(S, Head(payloads))
         IN BatchLoopCommitting(r.st, Tail(payloads),
                                IF r.ret.out = "ok" THEN created \cup r.ret.els
                                ELSE created)

\* a faulty variant of create_elements_batch: one snapshot per created element
create_elements_batch_commits_each(S, payloads) ==
    LET b == BatchLoopCommitting(S, payloads, {})
    IN IF b.created # {} THEN Result(b.st, "ok", b.created, {})
       ELSE Result(b.st, "none", {}, {})

\* WorkspaceService.create_elements_batch
create_elements_batch(S, payloads) ==
    LET b == BatchLoop(S, payloads, {})
    IN IF b.created # {} THEN Result(commit_history(b.st), "ok", b.created, {})
       ELSE Result(b.st, "none", {}, {})

\* WorkspaceService.update_element; updates.fields is the patch, updates.valid
\* says whether the patched data still validates (a failure raises)
update_element(S, element_id, updates, commit) ==
    IF ~Has(S.elements, element_id) THEN Result(S, "none", {}, {})
    ELSE IF ~updates.valid THEN Result(S, "raise", {}, {})
    ELSE LET element == Get(S.elements, element_id)
             updated_element ==
                 [f \in DOMAIN element |->
                     IF f \in DOMAIN updates.fields THEN updates.fields[f]
                     ELSE element[f]]
             S1 == [S EXCEPT !.elements = Put(S.elements, element_id, updated_element)]
         IN Result(IF commit THEN commit_history(S1) ELSE S1, "ok", {element_id}, {})

\* the ids of the elements whose parentId is in P
ChildIds(E, P) == {E[i].val.id : i \in {j \in DOMAIN E : E[j].val.parentId \in P}}

\* the breadth-first loop of _delete_element_internal, one level per step; it
\* never ends when the traversal meets an ownership cycle
RECURSIVE Descendants(_, _, _, _)
Descendants(E, frontier, acc, fuel) ==
    IF frontier = {} THEN [loops |-> FALSE, ids |-> acc]
    ELSE IF fuel = 0 THEN [loops |-> TRUE, ids |-> acc]
    ELSE LET children_ids == ChildIds(E, frontier)
         IN Descendants(E, children_ids, acc \cup children_ids, fuel - 1)

\* a faulty variant of _delete_element_internal: the children are left behind
delete_element_only(S, element_id) ==
    IF ~Has(S.elements, element_id) THEN Result(S, "none", {}, {})
    ELSE Result([S EXCEPT !.elements = Del(S.elements, element_id)],
                "ok", {}, {element_id})

\* a faulty variant of _delete_element_internal: the descendants are removed
\* but only the named id is returned
delete_element_returns_root(S, element_id) ==
    IF ~Has(S.elements, element_id) THEN Result(S, "none", {}, {})
    ELSE LET d == Descendants(S.elements, {element_id}, {element_id},
                              Len(S.elements) + 1)
             deleted_ids == d.ids \cap Keys(S.elements)
         IN IF d.loops THEN Result(S, "hang", {}, {})
            ELSE Result([S EXCEPT !.elements = DelAll(S.elements, SetToSeq(deleted_ids))],
                        "ok", {}, {element_id})

\* WorkspaceService._delete_element_internal
delete_element_internal(S, element_id) ==
    IF ~Has(S.elements, element_id) THEN Result(S, "none", {}, {})
    ELSE LET d == Descendants(S.elements, {element_id}, {element_id},
                              Len(S.elements) + 1)
             deleted_ids == d.ids \cap Keys(S.elements)
         IN IF d.loops THEN Result(S, "hang", {}, {})
            ELSE Result([S EXCEPT !.elements = DelAll(S.elements, SetToSeq(deleted_ids))],
                        "ok", {}, deleted_ids)

\* WorkspaceService.delete_element
delete_element(S, element_id) == CommitIf(delete_element_internal(S, element_id))

\* the loop of _group_elements_internal over the list children (keys, with
\* any repetition the caller's list has)
RECURSIVE GroupLoop(_, _, _, _, _)
GroupLoop(E, children, gid, gx, gy) ==
    IF children = <<>> THEN E
    ELSE LET child == Get(E, Head(children))
         IN GroupLoop(Put(E, Head(children),
                          [child EXCEPT !.parentId = gid, !.x = child.x - gx,
                                        !.y = child.y - gy]),
                      Tail(children), gid, gx, gy)

\* a faulty variant of _group_elements_internal: the children keep their stored
\* coordinates
group_keep_coords(S, element_ids) ==
    LET children == SelectSeq(element_ids, LAMBDA eid : Has(S.elements, eid))
        els == {Get(S.elements, children[i]) : i \in DOMAIN children}
        min_x == MinOf({el.x : el \in els})
        min_y == MinOf({el.y : el \in els})
        max_x == MaxOf({el.x + el.width : el \in els})
        max_y == MaxOf({el.y + el.height : el \in els})
        gid == generate_id(S)
        group == Element(gid, "group", min_x, min_y, max_x - min_x, max_y - min_y, None)
        S1 == add_element([S EXCEPT !.id_counter = gid], group)
    IN IF children = <<>> THEN Result(S, "none", {}, {})
       ELSE Result([S1 EXCEPT !.elements = GroupLoop(S1.elements, children, gid, 0, 0)],
                   "ok", {gid} \cup SeqToSet(children), {})

\* WorkspaceService._group_elements_internal
group_elements_internal(S, element_ids) ==
    LET children == SelectSeq(element_ids, LAMBDA eid : Has(S.elements, eid))
        els == {Get(S.elements, children[i]) : i \in DOMAIN children}
        min_x == MinOf({el.x : el \in els})
        min_y == MinOf({el.y : el \in els})
        max_x == MaxOf({el.x + el.width : el \in els})
        max_y == MaxOf({el.y + el.height : el \in els})
        gid == generate_id(S)
        group == Element(gid, "group", min_x, min_y, max_x - min_x, max_y - min_y, None)
        S1 == add_element([S EXCEPT !.id_counter = gid], group)
    IN IF children = <<>> THEN Result(S, "none", {}, {})
       ELSE Result([S1 EXCEPT !.elements =
                        GroupLoop(S1.elements, children, gid, min_x, min_y)],
                   "ok", {gid} \cup SeqToSet(children), {})

\* WorkspaceService.group_elements
group_elements(S, element_ids) == CommitIf(group_elements_internal(S, element_ids))

\* the keys of the elements whose parentId is container_id, in dict order
ChildKeys(E, container_id) ==
    LET ch == SelectSeq(E, LAMBDA e : e.val.parentId = container_id)
    IN [i \in DOMAIN ch |-> ch[i].key]

\* the loop of _ungroup_elements_internal; it reads the container object at
\* every step
RECURSIVE UngroupLoop(_, _, _, _)
UngroupLoop(E, children, container_id, z) ==
    IF children = <<>> THEN [elements |-> E, next_z_index |-> z]
    ELSE LET container == Get(E, container_id)
             child == Get(E, Head(children))
         IN UngroupLoop(Put(E, Head(children),
                            [child EXCEPT !.parentId = container.parentId,
                                          !.x = child.x + container.x,
                                          !.y = child.y + container.y,
                                          !.zIndex = z]),
                        Tail(children), container_id, z + 1)

\* a faulty variant of _ungroup_elements_internal: an empty container is kept
ungroup_keep_empty(S, container_id) ==
    IF ~Has(S.elements, container_id) THEN Result(S, "none", {}, {})
    ELSE IF Get(S.elements, container_id).element_type \notin ContainerTypes
    THEN Result(S, "none", {}, {})
    ELSE LET children == ChildKeys(S.elements, container_id)
             l == UngroupLoop(S.elements, children, container_id, S.next_z_index)
         IN IF children = <<>>
            THEN Result(S, "none", {}, {})
            ELSE Result([S EXCEPT !.elements = Del(l.elements, container_id),
                                  !.next_z_index = l.next_z_index],
                        "ok", SeqToSet(children), {container_id})

\* WorkspaceService._ungroup_elements_internal
ungroup_elements_internal(S, container_id) ==
    IF ~Has(S.elements, container_id) THEN Result(S, "none", {}, {})
    ELSE IF Get(S.elements, container_id).element_type \notin ContainerTypes
    THEN Result(S, "none", {}, {})
    ELSE LET children == ChildKeys(S.elements, container_id)
             l == UngroupLoop(S.elements, children, container_id, S.next_z_index)
         IN IF children = <<>>
            THEN Result([S EXCEPT !.elements = Del(S.elements, container_id)],
                        "ok", {}, {container_id})
            ELSE Result([S EXCEPT !.elements = Del(l.elements, container_id),
                                  !.next_z_index = l.next_z_index],
                        "ok", SeqToSet(children), {container_id})

\* WorkspaceService.ungroup_elements
ungroup_elements(S, container_id) ==
    CommitIf(ungroup_elements_internal(S, container_id))

\* WorkspaceService._get_absolute_coords; the recursion has no end on an
\* ownership cycle (Python raises RecursionError): ok is FALSE then
RECURSIVE get_absolute_coords(_, _, _)
get_absolute_coords(E, element, fuel) ==
    IF element.parentId # None /\ Has(E, element.parentId)
    THEN IF fuel = 0 THEN [ok |-> FALSE, x |-> 0, y |-> 0]
         ELSE LET p == get_absolute_coords(E, Get(E, element.parentId), fuel - 1)
              IN [ok |-> p.ok, x |-> element.x + p.x, y |-> element.y + p.y]
    ELSE [ok |-> TRUE, x |-> element.x, y |-> element.y]

AbsCoords(E, k) == get_absolute_coords(E, Get(E, k), Len(E))

\* a faulty variant of _reparent_element_internal: the stored coordinates are
\* not converted
reparent_keep_coords(S, child_id, new_parent_id) ==
    IF ~Has(S.elements, child_id) THEN Result(S, "none", {}, {})
    ELSE IF new_parent_id # None /\ ~Has(S.elements, new_parent_id)
    THEN Result(S, "none", {}, {})
    ELSE IF new_parent_id # None
            /\ Get(S.elements, new_parent_id).element_type \notin ContainerTypes
    THEN Result(S, "none", {}, {})
    ELSE LET child == Get(S.elements, child_id)
         IN Result([S EXCEPT !.elements = Put(S.elements, child_id,
                                 [child EXCEPT !.parentId = new_parent_id,
                                               !.zIndex = S.next_z_index]),
                             !.next_z_index = S.next_z_index + 1],
                   "ok", {child_id}, {})

\* WorkspaceService._reparent_element_internal
reparent_element_internal(S, child_id, new_parent_id) ==
    IF ~Has(S.elements, child_id) THEN Result(S, "none", {}, {})
    ELSE LET child == Get(S.elements, child_id)
             cur == AbsCoords(S.elements, child_id)
         IN IF ~cur.ok THEN Result(S, "raise", {}, {})
            ELSE IF new_parent_id # None /\ ~Has(S.elements, new_parent_id)
            THEN Result(S, "none", {}, {})
            ELSE IF new_parent_id # None
                    /\ Get(S.elements, new_parent_id).element_type \notin ContainerTypes
            THEN Result(S, "none", {}, {})
            ELSE LET np == IF new_parent_id # None
                           THEN AbsCoords(S.elements, new_parent_id)
                           ELSE [ok |-> TRUE, x |-> 0, y |-> 0]
                 IN IF ~np.ok THEN Result(S, "raise", {}, {})
                    ELSE Result([S EXCEPT !.elements = Put(S.elements, child_id,
                                     [child EXCEPT !.x = cur.x - np.x,
                                                   !.y = cur.y - np.y,
                                                   !.parentId = new_parent_id,
                                                   !.zIndex = S.next_z_index]),
                                          !.next_z_index = S.next_z_index + 1],
                                "ok", {child_id}, {})

\* WorkspaceService.reparent_element
reparent_element(S, child_id, new_parent_id) ==
    CommitIf(reparent_element_internal(S, child_id, new_parent_id))

\* list.index(v): the 0-based position of the first entry whose element
\* equals v (pydantic compares elements by their fields)
IndexOf(q, v) == (CHOOSE i \in DOMAIN q : q[i].val = v /\ \A j \in 1..(i - 1) : q[j].val # v) - 1

\* the 0-based position of key k in the list q
PosOfKey(q, k) == (CHOOSE i \in DOMAIN q : q[i].key = k) - 1

\* for i, element in enumerate(lst): element.zIndex = base + i
Renumber(E, lst, base) ==
    [i \in DOMAIN E |->
        IF E[i].key \in Keys(lst)
        THEN [E[i] EXCEPT !.val.zIndex = base + PosOfKey(lst, E[i].key)]
        ELSE E[i]]

GlobalCommands == {"BRING_FORWARD", "SEND_BACKWARD", "BRING_TO_FRONT", "SEND_TO_BACK"}

\* a faulty variant of _reorder_global: the target moves but nothing is renumbered
reorder_global_no_renumber(S, target_key, command) ==
    IF command \notin GlobalCommands THEN Result(S, "none", {}, {})
    ELSE Result(S, "ok", Keys(S.elements), {})

\* WorkspaceService._reorder_global
reorder_global(S, target_key, command) ==
    LET all_elements == SortByZ(S.elements)
        target_element == Get(S.elements, target_key)
        current_index == IndexOf(all_elements, target_element)
        entry == [key |-> target_key, val |-> target_element]
        popped == PopAt(all_elements, current_index)
        moved ==
            IF command = "BRING_FORWARD"
            THEN InsertAt(popped, IF current_index + 1 < Len(popped)
                                  THEN current_index + 1 ELSE Len(popped), entry)
            ELSE IF command = "SEND_BACKWARD"
            THEN InsertAt(popped, IF current_index - 1 > 0
                                  THEN current_index - 1 ELSE 0, entry)
            ELSE IF command = "BRING_TO_FRONT" THEN Append(popped, entry)
            ELSE InsertAt(popped, 0, entry)
    IN IF command \notin GlobalCommands THEN Result(S, "none", {}, {})
       ELSE Result([S EXCEPT !.elements = Renumber(S.elements, moved, 0),
                             !.next_z_index = Len(moved)],
                   "ok", Keys(moved), {})

\* a faulty variant of _reorder_siblings: the siblings are numbered from the
\* parent's own zIndex
reorder_siblings_base_off(S, target_key, command) ==
    LET target_element == Get(S.elements, target_key)
        siblings == SortByZ(SelectSeq(S.elements,
                        LAMBDA e : e.val.parentId = target_element.parentId))
        current_index == IndexOf(siblings, target_element)
        entry == [key |-> target_key, val |-> target_element]
        popped == PopAt(siblings, current_index)
        moved ==
            IF command \in {"BRING_FORWARD", "BRING_TO_FRONT"}
            THEN InsertAt(popped, IF current_index + 1 < Len(popped)
                                  THEN current_index + 1 ELSE Len(popped), entry)
            ELSE InsertAt(popped, IF current_index - 1 > 0
                                  THEN current_index - 1 ELSE 0, entry)
        base_z == IF Has(S.elements, target_element.parentId)
                  THEN Get(S.elements, target_element.parentId).zIndex
                  ELSE 0
    IN IF command \notin GlobalCommands THEN Result(S, "none", {}, {})
       ELSE Result([S EXCEPT !.elements = Renumber(S.elements, moved, base_z),
                             !.next_z_index =
                                 IF S.next_z_index > base_z + Len(moved)
                                 THEN S.next_z_index ELSE base_z + Len(moved)],
                   "ok", Keys(moved), {})

\* WorkspaceService._reorder_siblings
reorder_siblings(S, target_key, command) ==
    LET target_element == Get(S.elements, target_key)
        siblings == SortByZ(SelectSeq(S.elements,
                        LAMBDA e : e.val.parentId = target_element.parentId))
        current_index == IndexOf(siblings, target_element)
        entry == [key |-> target_key, val |-> target_element]
        popped == PopAt(siblings, current_index)
        moved ==
            IF command \in {"BRING_FORWARD", "BRING_TO_FRONT"}
            THEN InsertAt(popped, IF current_index + 1 < Len(popped)
                                  THEN current_index + 1 ELSE Len(popped), entry)
            ELSE InsertAt(popped, IF current_index - 1 > 0
                                  THEN current_index - 1 ELSE 0, entry)
        base_z == IF Has(S.elements, target_element.parentId)
                  THEN Get(S.elements, target_element.parentId).zIndex + 1
                  ELSE 0
    IN IF command \notin GlobalCommands THEN Result(S, "none", {}, {})
       ELSE Result([S EXCEPT !.elements = Renumber(S.elements, moved, base_z),
                             !.next_z_index =
                                 IF S.next_z_index > base_z + Len(moved)
                                 THEN S.next_z_index ELSE base_z + Len(moved)],
                   "ok", Keys(moved), {})

\* WorkspaceService.reorder_element
reorder_element(S, element_id, command) ==
    IF ~Has(S.elements, element_id) THEN Result(S, "none", {}, {})
    ELSE IF Get(S.elements, element_id).parentId # None
    THEN CommitIf(reorder_siblings(S, element_id, command))
    ELSE CommitIf(reorder_global(S, element_id, command))

\* sorted(entries, key=presentationOrder): stable insertion sort
RECURSIVE InsertByOrder(_, _)
InsertByOrder(sorted, e) ==
    IF sorted = <<>> THEN <<e>>
    ELSE LET l == sorted[Len(sorted)]
         IN IF l.val.presentationOrder <= e.val.presentationOrder
            THEN Append(sorted, e)
            ELSE Append(InsertByOrder(SubSeq(sorted, 1, Len(sorted) - 1), e), l)

RECURSIVE SortByOrder(_)
SortByOrder(q) ==
    IF q = <<>> THEN <<>>
    ELSE InsertByOrder(SortByOrder(SubSeq(q, 1, Len(q) - 1)), q[Len(q)])

\* list.index(v) on a list of ids: the 0-based position of the first v
IndexOfId(ids, v) ==
    (CHOOSE i \in DOMAIN ids : ids[i] = v /\ \A j \in 1..(i - 1) : ids[j] # v) - 1

\* the frames that have a presentationOrder, sorted by it (current_slides), as ids
current_slides(E) ==
    LET slides == SortByOrder(SelectSeq(E,
                      LAMBDA e : e.val.element_type = "frame"
                                 /\ e.val.presentationOrder # NoOrder))
    IN [i \in DOMAIN slides |-> slides[i].key]

\* a faulty variant of _set_presentation_order: the frames not listed keep
\* their presentationOrder
set_presentation_order_no_clear(S, ordered_frame_ids) ==
    LET ids_in_new_presentation == SeqToSet(ordered_frame_ids)
        E == S.elements
        listed == {E[i].key : i \in {j \in DOMAIN E :
                      E[j].val.element_type = "frame"
                      /\ E[j].key \in ids_in_new_presentation}}
        E1 == [i \in DOMAIN E |->
                  IF E[i].key \in listed
                  THEN [E[i] EXCEPT !.val.presentationOrder =
                                        IndexOfId(ordered_frame_ids, E[i].key)]
                  ELSE E[i]]
    IN Result([S EXCEPT !.elements = E1],
              IF listed = {} THEN "none" ELSE "ok", listed, {})

\* WorkspaceService._set_presentation_order
set_presentation_order(S, ordered_frame_ids) ==
    LET ids_in_new_presentation == SeqToSet(ordered_frame_ids)
        E == S.elements
        listed == {E[i].key : i \in {j \in DOMAIN E :
                      E[j].val.element_type = "frame"
                      /\ E[j].key \in ids_in_new_presentation}}
        cleared == {E[i].key : i \in {j \in DOMAIN E :
                       E[j].val.element_type = "frame"
                       /\ E[j].key \notin ids_in_new_presentation
                       /\ E[j].val.presentationOrder # NoOrder}}
        E1 == [i \in DOMAIN E |->
                  IF E[i].key \in listed
                  THEN [E[i] EXCEPT !.val.presentationOrder =
                                        IndexOfId(ordered_frame_ids, E[i].key)]
                  ELSE IF E[i].key \in cleared
                  THEN [E[i] EXCEPT !.val.presentationOrder = NoOrder]
                  ELSE E[i]]
        elements_to_broadcast == listed \cup cleared
    IN Result([S EXCEPT !.elements = E1],
              IF elements_to_broadcast = {} THEN "none" ELSE "ok",
              elements_to_broadcast, {})

\* WorkspaceService._update_presentation_order_internal
update_presentation_order_internal(S, payload) ==
    IF payload.action = "set"
    THEN set_presentation_order(S, payload.ordered_frame_ids)
    ELSE IF payload.action = "add"
    THEN IF payload.frame_id = None THEN Result(S, "none", {}, {})
         ELSE LET ids == current_slides(S.elements)
                  new_ordered_ids == IF payload.frame_id \in SeqToSet(ids) THEN ids
                                     ELSE Append(ids, payload.frame_id)
              IN set_presentation_order(S, new_ordered_ids)
    ELSE Result(S, "none", {}, {})

\* WorkspaceService.update_presentation_order
update_presentation_order(S, payload) ==
    CommitIf(update_presentation_order_internal(S, payload))

\* a faulty variant of _reorder_slide_internal: "below" inserts at the
\* target's place, like "above"
reorder_slide_always_above(S, dragged_id, target_id, position) ==
    LET slides == current_slides(S.elements)
        rest == SelectSeq(slides, LAMBDA k : k # dragged_id)
        target_index == IndexOfId(rest, target_id)
    IN IF dragged_id \notin SeqToSet(slides) THEN Result(S, "none", {}, {})
       ELSE IF target_id \notin SeqToSet(rest) THEN Result(S, "none", {}, {})
       ELSE set_presentation_order(S, InsertAt(rest, target_index, dragged_id))

\* WorkspaceService._reorder_slide_internal
reorder_slide_internal(S, dragged_id, target_id, position) ==
    LET slides == current_slides(S.elements)
        rest == SelectSeq(slides, LAMBDA k : k # dragged_id)
        target_index == IndexOfId(rest, target_id)
    IN IF dragged_id \notin SeqToSet(slides) THEN Result(S, "none", {}, {})
       ELSE IF target_id \notin SeqToSet(rest) THEN Result(S, "none", {}, {})
       ELSE set_presentation_order(S,
                InsertAt(rest, IF position = "below" THEN target_index + 1
                               ELSE target_index, dragged_id))

\* WorkspaceService.reorder_slide
reorder_slide(S, dragged_id, target_id, position) ==
    CommitIf(reorder_slide_internal(S, dragged_id, target_id, position))

\* the deletions at the end of create_component_from_elements, one call of
\* _delete_element_internal per listed id
RECURSIVE DeleteEach(_, _, _)
DeleteEach(S, ids, deleted) ==
    IF ids = <<>> THEN Result(S, "ok", {}, deleted)
    ELSE LET r == delete_element_internal(S, Head(ids))
         IN IF r.ret.out = "hang" THEN Result(r.st, "hang", {}, deleted)
            ELSE DeleteEach(r.st, Tail(ids), deleted \cup r.ret.ids)

\* a faulty variant of create_component: the definition is registered before
\* the schema is parsed and is never taken back
create_component_orphan(S, name, source_element_ids, schema, instance_valid) ==
    LET source_keys == SelectSeq(source_element_ids, LAMBDA eid : Has(S.elements, eid))
        source_elements == [i \in DOMAIN source_keys |-> Get(S.elements, source_keys[i])]
        els == SeqToSet(source_elements)
        comp_x == MinOf({el.x : el \in els})
        comp_y == MinOf({el.y : el \in els})
        comp_width == MaxOf({el.x + el.width : el \in els}) - comp_x
        comp_height == MaxOf({el.y + el.height : el \in els}) - comp_y
        template_elements_data ==
            [i \in DOMAIN source_elements |->
                [source_elements[i] EXCEPT !.x = @ - comp_x, !.y = @ - comp_y]]
        def_id == generate_id(S)
        new_definition == [id |-> def_id, name |-> name,
                           template_elements |-> template_elements_data,
                           schema |-> schema.entries]
        S1 == [S EXCEPT !.id_counter = def_id,
                        !.component_definitions =
                            Put(S.component_definitions, def_id, new_definition)]
        inst == create_element_from_payload(S1,
                    [element_type |-> "component_instance", x |-> comp_x, y |-> comp_y,
                     width |-> comp_width, height |-> comp_height, parentId |-> None,
                     definition_id |-> def_id, id |-> None, valid |-> instance_valid])
        inst_id == CHOOSE k \in inst.ret.els : TRUE
        del == DeleteEach(inst.st, source_element_ids, {})
    IN IF source_keys = <<>> THEN Result(S, "none", {}, {})
       ELSE IF ~schema.valid THEN Result(S1, "none", {}, {})
       ELSE IF inst.ret.out # "ok" THEN Result(inst.st, "none", {}, {})
       ELSE IF del.ret.out = "hang" THEN Result(del.st, "hang", {}, {})
       ELSE Result(del.st, "ok", {inst_id}, del.ret.ids)

\* the body of WorkspaceService.create_component_from_elements; schema.valid
\* says whether every entry parses as a ComponentProperty, instance_valid
\* whether the payload built for the instance validates
create_component(S, name, source_element_ids, schema, instance_valid) ==
    LET source_keys == SelectSeq(source_element_ids, LAMBDA eid : Has(S.elements, eid))
        source_elements == [i \in DOMAIN source_keys |-> Get(S.elements, source_keys[i])]
        els == SeqToSet(source_elements)
        comp_x == MinOf({el.x : el \in els})
        comp_y == MinOf({el.y : el \in els})
        comp_width == MaxOf({el.x + el.width : el \in els}) - comp_x
        comp_height == MaxOf({el.y + el.height : el \in els}) - comp_y
        template_elements_data ==
            [i \in DOMAIN source_elements |->
                [source_elements[i] EXCEPT !.x = @ - comp_x, !.y = @ - comp_y]]
        def_id == generate_id(S)
        new_definition == [id |-> def_id, name |-> name,
                           template_elements |-> template_elements_data,
                           schema |-> schema.entries]
        S1 == [S EXCEPT !.id_counter = def_id,
                        !.component_definitions =
                            Put(S.component_definitions, def_id, new_definition)]
        inst == create_element_from_payload(S1,
                    [element_type |-> "component_instance", x |-> comp_x, y |-> comp_y,
                     width |-> comp_width, height |-> comp_height, parentId |-> None,
                     definition_id |-> def_id, id |-> None, valid |-> instance_valid])
        inst_id == CHOOSE k \in inst.ret.els : TRUE
        del == DeleteEach(inst.st, source_element_ids, {})
    IN IF source_keys = <<>> THEN Result(S, "none", {}, {})
       ELSE IF ~schema.valid THEN Result(S, "none", {}, {})
       ELSE IF inst.ret.out # "ok"
       THEN Result([inst.st EXCEPT !.component_definitions =
                        Del(inst.st.component_definitions, def_id)], "none", {}, {})
       ELSE IF del.ret.out = "hang" THEN Result(del.st, "hang", {}, {})
       ELSE Result(del.st, "ok", {inst_id}, del.ret.ids)

\* WorkspaceService.create_component_from_elements: the payload it builds for
\* the instance names every required field, so it validates
create_component_from_elements(S, name, source_element_ids, schema) ==
    create_component(S, name, source_element_ids, schema, TRUE)

\* ------------------------------------------------------------------ inputs
\* the bounding boxes (x, y, width, height) the callers place elements at
Boxes == {<<10, 10, 20, 20>>, <<50, 50, 10, 10>>}

\* the variant tags of the payloads: two variants _create_element_internal knows
\* and one it does not
PayloadTypes == {"shape", "frame", "group"}

\* the ids a caller may name: every id handed out so far and a stale one
KnownIds(S) == (1..S.id_counter) \cup {UnknownId}

Payload(t, b, p, v) ==
    [element_type |-> t, x |-> b[1], y |-> b[2], width |-> b[3], height |-> b[4],
     parentId |-> p, definition_id |-> None, id |-> None, valid |-> v]

\* a payload that carries the id of an element a client has seen
Keyed(payload, id) == [payload EXCEPT !.id = id]

\* the payloads of a create call: every known variant at every box under every
\* present parent, one of an unknown variant, one that fails validation and
\* one that carries the id of each present element
Payloads(S) ==
    {Payload(t, b, p, TRUE) :
        t \in PayloadTypes, b \in Boxes, p \in {None} \cup Keys(S.elements)}
    \cup {Payload("shape", <<10, 10, 20, 20>>, None, FALSE)}
    \cup {Keyed(Payload("shape", <<50, 50, 10, 10>>, None, TRUE), k) :
            k \in Keys(S.elements)}

\* the longest id list of a call
MaxList == 2

IdLists(S) ==
    UNION {[1..n -> KnownIds(S)] : n \in 0..MaxList}

Commands == GlobalCommands \cup {"FLIP"}

\* the schemas of create_component_from_elements: none, and one that does not parse
GoodSchema == [entries |-> <<>>, valid |-> TRUE]
BadSchema == [entries |-> <<>>, valid |-> FALSE]

\* a schema of one property: "label" is the content of the first element
LabelSchema ==
    [entries |-> <<[prop_name |-> "label", target_element_id |-> 1,
                    target_property |-> "content", prop_type |-> "text"]>>,
     valid |-> TRUE]

\* the (source ids, schema) pairs of a component call: every id list with the
\* empty schema, the first element alone with the schema that does not parse,
\* the first element (alone and with the second) with the label schema
ComponentInputs(S) ==
    {<<ids, GoodSchema>> : ids \in IdLists(S)}
    \cup {<<(<<1>>), BadSchema>>}
    \cup {<<ids, LabelSchema>> : ids \in {<<1>>, <<1, 2>>}}

\* the (id, patch, commit flag) triples of an update call: the move of every
\* id with and without commit, and the failing patch on the first element
UpdateInputs(S) ==
    {<<id, [fields |-> [x |-> 30, y |-> 40], valid |-> TRUE], c>> :
        id \in KnownIds(S), c \in BOOLEAN}
    \cup {<<1, [fields |-> [x |-> 30, y |-> 40], valid |-> FALSE], TRUE>>}

\* the payloads of update_presentation_order: a set of every id list, an add
\* of every id and of none, and an action the engine does not know
PresentationPayloads(S) ==
    {[action |-> "set", ordered_frame_ids |-> ids, frame_id |-> None] :
        ids \in IdLists(S)}
    \cup {[action |-> "add", ordered_frame_ids |-> <<>>, frame_id |-> id] :
            id \in KnownIds(S) \cup {None}}
    \cup {[action |-> "clear", ordered_frame_ids |-> <<>>, frame_id |-> None]}

Positions == {"above", "below"}

\* the payloads pasted in one batch: two that validate, one of an unknown
\* variant, one that fails validation and one that carries the id of the
\* first element
BatchPayloads(S) ==
    {Payload("shape", <<10, 10, 20, 20>>, None, TRUE),
     Payload("frame", <<50, 50, 10, 10>>, None, TRUE),
     Payload("group", <<10, 10, 20, 20>>, None, TRUE),
     Payload("shape", <<50, 50, 10, 10>>, None, FALSE)}
    \cup {Keyed(Payload("shape", <<50, 50, 10, 10>>, None, TRUE), k) :
            k \in Keys(S.elements) \cap {1}}

BatchInputs(S) == UNION {[1..n -> BatchPayloads(S)] : n \in 0..MaxList}

\* ------------------------------------------------------------------ state
\* the fields of the service as one record
Cur ==
    [elements |-> elements, component_definitions |-> component_definitions,
     assets |-> assets, next_z_index |-> next_z_index, history |-> history,
     history_index |-> history_index, id_counter |-> id_counter]

\* the snapshot at the cursor; there is none when the cursor is not an index
\* of the log
AtCursor(S) ==
    IF S.history_index + 1 \in DOMAIN S.history
    THEN S.history[S.history_index + 1]
    ELSE <<>>

\* a run of committing calls, then undos, then redos, as it is observed from
\* outside: base is the collection before the first call of the run, clean
\* whether it was the snapshot at the cursor, n the snapshots appended, final
\* the collection after the last call, snap the last snapshot appended, k the
\* undos (then redos) made so far
FreshRun(S) ==
    [phase |-> "ops", base |-> S.elements,
     clean |-> SameDict(S.elements, AtCursor(S)), n |-> 0, k |-> 0,
     final |-> S.elements, snap |-> AtCursor(S)]

Track(rn, op, S, r) ==
    LET T == r.st
        same == T.elements = S.elements /\ T.history = S.history
                /\ T.history_index = S.history_index
        appended == T.history_index = S.history_index + 1
                    /\ Len(T.history) = T.history_index + 1
        start == IF rn.phase = "ops" THEN rn ELSE FreshRun(S)
    IN IF same THEN rn
       ELSE IF op = "undo"
       THEN IF rn.phase \in {"ops", "undo"} /\ rn.k < rn.n
            THEN [rn EXCEPT !.phase = "undo", !.k = rn.k + 1]
            ELSE FreshRun(T)
       ELSE IF op = "redo"
       THEN IF rn.phase = "undo" /\ rn.k = rn.n
            THEN [rn EXCEPT !.phase = "redo", !.k = 1]
            ELSE IF rn.phase = "redo" /\ rn.k < rn.n
            THEN [rn EXCEPT !.k = rn.k + 1]
            ELSE FreshRun(T)
       ELSE IF appended
       THEN [start EXCEPT !.n = start.n + 1, !.final = T.elements,
                          !.snap = AtCursor(T)]
       ELSE FreshRun(T)

\* a run of updates made with commit_history=False (a drag in progress), the
\* call that commits them and the undo after it, as it is observed from
\* outside: k counts the updates, base is the collection before the first of
\* them, clean whether it was the snapshot at the cursor
NoDrag == [phase |-> "idle", k |-> 0, base |-> <<>>, clean |-> FALSE]

TrackDrag(dg, op, args, S, r) ==
    LET T == r.st
        same == T.elements = S.elements /\ T.history = S.history
                /\ T.history_index = S.history_index
        appended == op \notin {"undo", "redo"}
                    /\ T.history_index = S.history_index + 1
    IN IF r.ret.out = "hang" THEN NoDrag
       ELSE IF op = "update" /\ r.ret.out = "ok" /\ ~args.commit
       THEN IF dg.phase = "drag" THEN [dg EXCEPT !.k = dg.k + 1]
            ELSE [phase |-> "drag", k |-> 1, base |-> S.elements,
                  clean |-> SameDict(S.elements, AtCursor(S))]
       ELSE IF same THEN dg
       ELSE IF dg.phase = "drag" /\ appended THEN [dg EXCEPT !.phase = "committed"]
       ELSE IF dg.phase = "committed" /\ op = "undo" THEN [dg EXCEPT !.phase = "undone"]
       ELSE NoDrag

\* a call as it is remembered: what was called, the fields before it, its result
CallRecord(op, args, S, ret) == [op |-> op, args |-> args, pre |-> S, ret |-> ret]

NoCall == CallRecord("init", <<>>, Fields0, Ret("none", {}, {}))

\* the service together with what is remembered about its calls
Observed(S, rn, l, p, dg) ==
    [st |-> S, run |-> rn, last |-> l, prev |-> p, drag |-> dg]

\* one call of the engine on an observed service
After(G, op, args, r) ==
    Observed(r.st, Track(G.run, op, G.st, r), CallRecord(op, args, G.st, r.ret),
             G.last, TrackDrag(G.drag, op, args, G.st, r))

\* the service after construction
Constructed == Observed(New, FreshRun(New), NoCall, NoCall, NoDrag)

\* the connections of the websocket endpoint to one service: every connection
\* is a coroutine of websocket_endpoint that waits in receive_text (pending
\* is 0) or in one of the pending broadcasts of its handler, until an
\* exception closes it; arrival is the messages in the order receive_text
\* returned them, origin the fields of the service when the connections were
\* made
MaxConns == 2

Conns == 1..MaxConns

\* AgentService.process_user_prompt as it runs: no workflow ("idle"), the
\* tasks of the plan being executed ("running"), workflow_failed set
\* ("failed") or the finally block passed without it ("done"); commands
\* counts workflow_context["commands"], log and cursor are the history log and
\* cursor when the workflow started
NoFlow == [phase |-> "idle", commands |-> 0, log |-> <<>>, cursor |-> -1]

\* the interactive analysis tasks: owner is the connection whose
\* start_analysis_session made the task; the task is scheduled ("started"),
\* suspended in its first send before it registers its session
\* ("preparing"), suspended after it ("running") or done ("finished");
\* registered says whether its session is in active_interactive_tasks,
\* message_queues and session_owner; cancelled whether task.cancel() was called
MaxTasks == 2

Tasks == 1..MaxTasks

NoTask == [owner |-> 0, pc |-> "none", cancelled |-> FALSE, registered |-> FALSE]

Connected(S) ==
    [conn |-> [c \in Conns |-> [open |-> TRUE, pending |-> 0]],
     arrival |-> <<>>, origin |-> S, flow |-> NoFlow,
     tasks |-> [t \in Tasks |-> NoTask]]

\* one call of the engine: the fields become r.st; the call and its result are
\* remembered in last (the call before it in prev); a call that never returns
\* blocks the single-threaded server for good
Engine(op, args, r) ==
    LET G == After(Observed(Cur, run, last, prev, drag), op, args, r)
    IN /\ ~hung
       /\ ops > 0
       /\ r.st.id_counter <= MaxIds
       /\ elements' = r.st.elements
       /\ component_definitions' = r.st.component_definitions
       /\ assets' = r.st.assets
       /\ next_z_index' = r.st.next_z_index
       /\ history' = r.st.history
       /\ history_index' = r.st.history_index
       /\ id_counter' = r.st.id_counter
       /\ hung' = (r.ret.out = "hang")
       /\ ops' = ops - 1
       /\ last' = G.last
       /\ prev' = G.prev
       /\ run' = G.run
       /\ drag' = G.drag

\* a call made on the service directly
Call(op, args, r) == Engine(op, args, r) /\ UNCHANGED net

Start(G, budget) ==
    /\ elements = G.st.elements
    /\ component_definitions = G.st.component_definitions
    /\ assets = G.st.assets
    /\ next_z_index = G.st.next_z_index
    /\ history = G.st.history
    /\ history_index = G.st.history_index
    /\ id_counter = G.st.id_counter
    /\ hung = FALSE
    /\ ops = budget
    /\ last = G.last
    /\ prev = G.prev
    /\ run = G.run
    /\ drag = G.drag
    /\ net = Connected(G.st)

\* ------------------------------------------------------------------ actions
Undo == Call("undo", <<>>, undo(Cur))

Redo == Call("redo", <<>>, redo(Cur))

CreateAsset ==
    \E valid \in BOOLEAN :
        Call("asset", [valid |-> valid], create_asset(Cur, valid))

DeleteAsset ==
    \E asset_id \in 1..MaxIds :
        Call("delete_asset", [id |-> asset_id], delete_asset(Cur, asset_id))

CreateElement ==
    \E payload \in Payloads(Cur) :
        Call("create", payload, create_element_from_payload(Cur, payload))

CreateElementsBatch ==
    \E payloads \in BatchInputs(Cur) :
        Call("batch", [payloads |-> payloads], create_elements_batch(Cur, payloads))

UpdateElement ==
    \E u \in UpdateInputs(Cur) :
        Call("update", [id |-> u[1], updates |-> u[2], commit |-> u[3]],
             update_element(Cur, u[1], u[2], u[3]))

DeleteElement ==
    \E id \in KnownIds(Cur) :
        Call("delete", [id |-> id], delete_element(Cur, id))

GroupElements ==
    \E ids \in IdLists(Cur) :
        Call("group", [ids |-> ids], group_elements(Cur, ids))

UngroupElements ==
    \E id \in KnownIds(Cur) :
        Call("ungroup", [id |-> id], ungroup_elements(Cur, id))

ReparentElement ==
    \E child \in KnownIds(Cur), parent \in KnownIds(Cur) \cup {None} :
        Call("reparent", [child |-> child, parent |-> parent],
             reparent_element(Cur, child, parent))

ReorderElement ==
    \E id \in KnownIds(Cur), command \in Commands :
        Call("reorder", [id |-> id, command |-> command],
             reorder_element(Cur, id, command))

CreateComponent ==
    \E c \in ComponentInputs(Cur) :
        Call("component", [ids |-> c[1], schema |-> c[2]],
             create_component_from_elements(Cur, "Card", c[1], c[2]))

UpdatePresentationOrder ==
    \E payload \in PresentationPayloads(Cur) :
        Call("present", payload, update_presentation_order(Cur, payload))

ReorderSlide ==
    \E dragged \in KnownIds(Cur), target \in KnownIds(Cur), position \in Positions :
        Call("slide", [dragged |-> dragged, target |-> target, position |-> position],
             reorder_slide(Cur, dragged, target, position))

Init == Start(Constructed, MaxOps)

Next ==
    \/ Undo
    \/ Redo
    \/ CreateElement
    \/ CreateElementsBatch
    \/ UpdateElement
    \/ DeleteElement
    \/ GroupElements
    \/ UngroupElements
    \/ ReparentElement
    \/ ReorderElement
    \/ CreateComponent
    \/ UpdatePresentationOrder
    \/ ReorderSlide

Spec == Init /\ [][Next]_vars

\* ------------------------------------------------------------------ scenes
\* documents built by calls of the engine on the constructed service; the
\* focused specifications start from them
DoCreate(G, payload) ==
    After(G, "create", payload, create_element_from_payload(G.st, payload))

DoGroup(G, ids) == After(G, "group", [ids |-> ids], group_elements(G.st, ids))

DoReparent(G, child, parent) ==
    After(G, "reparent", [child |-> child, parent |-> parent],
          reparent_element(G.st, child, parent))

DoReorder(G, id, command) ==
    After(G, "reorder", [id |-> id, command |-> command],
          reorder_element(G.st, id, command))

DoUndo(G) == After(G, "undo", <<>>, undo(G.st))

DoUpdate(G, id, updates, commit) ==
    After(G, "update", [id |-> id, updates |-> updates, commit |-> commit],
          update_element(G.st, id, updates, commit))

BoxA == <<10, 10, 20, 20>>
BoxB == <<50, 50, 10, 10>>

\* two root shapes A (id 1) and B (id 2)
SceneAB ==
    DoCreate(DoCreate(Constructed, Payload("shape", BoxA, None, TRUE)),
             Payload("shape", BoxB, None, TRUE))

\* a frame (id 1) with a child shape (id 2), and a root shape (id 3)
SceneFrame ==
    DoCreate(DoCreate(DoCreate(Constructed, Payload("frame", BoxA, None, TRUE)),
                      Payload("shape", BoxB, 1, TRUE)),
             Payload("shape", BoxA, None, TRUE))

\* a frame (id 1) containing a group (id 3) containing a shape (id 2)
SceneNested ==
    DoReparent(DoGroup(DoCreate(DoCreate(Constructed, Payload("frame", BoxA, None, TRUE)),
                                Payload("shape", BoxB, None, TRUE)),
                       <<2>>),
               3, 1)

\* SceneFrame after the frame was brought forward and the reorder undone
SceneUndone == DoUndo(DoReorder(SceneFrame, 1, "BRING_FORWARD"))

\* a frame (id 1) with two child shapes (ids 2 and 3)
SceneSiblings ==
    DoCreate(DoCreate(DoCreate(Constructed, Payload("frame", BoxA, None, TRUE)),
                      Payload("shape", BoxB, 1, TRUE)),
             Payload("shape", BoxA, 1, TRUE))

Scenes == {SceneAB, SceneFrame, SceneNested, SceneUndone}

\* structural editing of a scene
InitStruct == \E G \in Scenes : Start(G, MaxSceneOps)

NextStruct ==
    \/ GroupElements
    \/ UngroupElements
    \/ ReparentElement
    \/ DeleteElement

SpecStruct == InitStruct /\ [][NextStruct]_vars

\* ordering and history of a scene
\* a frame (id 1) with three child shapes (ids 2, 3 and 4)
SceneTriplets == DoCreate(SceneSiblings, Payload("shape", BoxB, 1, TRUE))

InitOrder ==
    \E G \in {SceneFrame, SceneSiblings, SceneUndone, SceneTriplets} :
        Start(G, MaxSceneOps)

NextOrder ==
    \/ ReorderElement
    \/ UngroupElements
    \/ Undo
    \/ Redo

SpecOrder == InitOrder /\ [][NextOrder]_vars

\* history of a scene
\* SceneAB with its second creation undone
SceneABUndone == DoUndo(SceneAB)

\* SceneAB while A is being dragged: one update of A not yet committed
SceneDragged ==
    DoUpdate(SceneAB, 1, [fields |-> [x |-> 20, y |-> 20], valid |-> TRUE], FALSE)

InitHistory ==
    \E G \in {SceneAB, SceneABUndone, SceneDragged} : Start(G, MaxHistoryOps)

NextHistory ==
    \/ Undo
    \/ Redo
    \/ DeleteElement
    \/ UpdateElement
    \/ CreateComponent

SpecHistory == InitHistory /\ [][NextHistory]_vars

\* creation and update of elements, with payloads and patches that fail
MaxValidateOps == 2

InitValidate == \E G \in {Constructed, SceneAB} : Start(G, MaxValidateOps)

NextValidate ==
    \/ CreateElement
    \/ UpdateElement

SpecValidate == InitValidate /\ [][NextValidate]_vars

\* pasting and grouping
MaxBatchOps == 1

InitBatch ==
    \E G \in {Constructed, SceneAB, SceneABUndone, SceneFrame} : Start(G, MaxBatchOps)

NextBatch ==
    \/ CreateElementsBatch
    \/ GroupElements
    \/ Undo

SpecBatch == InitBatch /\ [][NextBatch]_vars

\* a text T (id 1) and a shape (id 2), both at root
SceneCard ==
    DoCreate(DoCreate(Constructed, Payload("text", BoxA, None, TRUE)),
             Payload("shape", BoxB, None, TRUE))

\* a frame (id 1) with a child shape (id 2)
SceneChild ==
    DoCreate(DoCreate(Constructed, Payload("frame", BoxA, None, TRUE)),
             Payload("shape", BoxB, 1, TRUE))

DoComponent(G, ids, schema) ==
    After(G, "component", [ids |-> ids, schema |-> schema],
          create_component_from_elements(G.st, "Card", ids, schema))

\* SceneCard after its shape was made a component
SceneCardMade == DoComponent(SceneCard, <<2>>, GoodSchema)

\* SceneChild after its frame was made its own parent
SceneLoop == DoReparent(SceneChild, 1, 1)

\* component creation on a scene
InitComponent ==
    \E G \in {SceneAB, SceneCard, SceneChild, SceneCardMade, SceneLoop} :
        Start(G, MaxComponentOps)

NextComponent ==
    \/ CreateComponent
    \/ ReparentElement
    \/ Undo

SpecComponent == InitComponent /\ [][NextComponent]_vars

DoPresent(G, payload) ==
    After(G, "present", payload, update_presentation_order(G.st, payload))

SetOrder(ids) == [action |-> "set", ordered_frame_ids |-> ids, frame_id |-> None]

AddToOrder(id) == [action |-> "add", ordered_frame_ids |-> <<>>, frame_id |-> id]

\* four frames (ids 1 to 4) in the presentation order 2, 1, 4, 3
SceneSlides ==
    DoPresent(DoPresent(DoPresent(
        DoCreate(DoCreate(DoCreate(DoCreate(Constructed,
            Payload("frame", BoxA, None, TRUE)), Payload("frame", BoxB, None, TRUE)),
            Payload("frame", BoxA, None, TRUE)), Payload("frame", BoxB, None, TRUE)),
        SetOrder(<<2, 1>>)), AddToOrder(4)), AddToOrder(3))

\* two frames (ids 1 and 2) and a shape (id 3); frame 1 alone is in the
\* presentation, listed after an id that names nothing
SceneDeck ==
    DoPresent(
        DoCreate(DoCreate(DoCreate(Constructed,
            Payload("frame", BoxA, None, TRUE)), Payload("frame", BoxB, None, TRUE)),
            Payload("shape", BoxA, None, TRUE)),
        SetOrder(<<UnknownId, 1>>))

\* presentation sequencing of a scene
InitPresent == \E G \in {SceneSlides, SceneDeck} : Start(G, MaxPresentOps)

NextPresent ==
    \/ UpdatePresentationOrder
    \/ ReorderSlide
    \/ Undo

SpecPresent == InitPresent /\ [][NextPresent]_vars

DoAsset(G) == After(G, "asset", [valid |-> TRUE], create_asset(G.st, TRUE))

\* an asset record (id 1) and a shape (id 2)
SceneUpload == DoCreate(DoAsset(Constructed), Payload("shape", BoxA, None, TRUE))

\* SceneUpload after its shape was made a component
SceneLibrary == DoComponent(SceneUpload, <<2>>, GoodSchema)

\* undo and redo on a workspace with a catalogue and asset records
MaxCatalogueOps == 3

InitCatalogue == \E G \in {SceneUpload, SceneLibrary} : Start(G, MaxCatalogueOps)

NextCatalogue ==
    \/ Undo
    \/ Redo
    \/ CreateAsset
    \/ DeleteAsset
    \/ CreateComponent
    \/ UpdateElement

SpecCatalogue == InitCatalogue /\ [][NextCatalogue]_vars

\* ------------------------------------------------------------------ connections
\* the if/elif chain of websocket_endpoint's message loop: the engine call a
\* message of each type makes (a type the chain does not know makes none)
Dispatch(S, m) ==
    CASE m.op = "undo" -> undo(S)
      [] m.op = "redo" -> redo(S)
      [] m.op = "update" ->
            update_element(S, m.args.id, m.args.updates, m.args.commit)
      [] m.op = "create" -> create_element_from_payload(S, m.args)
      [] m.op = "batch" -> create_elements_batch(S, m.args.payloads)
      [] m.op = "delete" -> delete_element(S, m.args.id)
      [] m.op = "group" -> group_elements(S, m.args.ids)
      [] m.op = "ungroup" -> ungroup_elements(S, m.args.id)
      [] m.op = "reparent" -> reparent_element(S, m.args.child, m.args.parent)
      [] m.op = "reorder" -> reorder_element(S, m.args.id, m.args.command)
      [] m.op = "present" -> update_presentation_order(S, m.args)
      [] m.op = "slide" ->
            reorder_slide(S, m.args.dragged, m.args.target, m.args.position)
      [] OTHER -> Result(S, "none", {}, {})

\* the awaits of a handler after its engine call: one broadcast per removed id
\* for delete, one for the children and one per removed id for ungroup, one
\* for the response of every other call that returned something
Broadcasts(m, ret) ==
    IF ret.out # "ok" THEN 0
    ELSE IF m.op = "delete" THEN Cardinality(ret.ids)
    ELSE IF m.op = "ungroup"
    THEN (IF ret.els # {} THEN 1 ELSE 0) + Cardinality(ret.ids)
    ELSE 1

\* the messages the clients send: an undo, a creation, a deletion of every
\* id, a move of the first element with and without commit, a reorder and an
\* ungroup of the first element
NetMessages(S) ==
    {[op |-> "undo", args |-> <<>>],
     [op |-> "create", args |-> Payload("shape", BoxB, None, TRUE)],
     [op |-> "reorder", args |-> [id |-> 1, command |-> "BRING_TO_FRONT"]],
     [op |-> "ungroup", args |-> [id |-> 1]]}
    \cup {[op |-> "delete", args |-> [id |-> id]] : id \in KnownIds(S)}
    \cup {[op |-> "update",
           args |-> [id |-> 1,
                     updates |-> [fields |-> [x |-> 30, y |-> 40], valid |-> TRUE],
                     commit |-> c]] : c \in BOOLEAN}

\* the fields a handler would work on had it read them before the call that
\* ran last
Stale == IF last.op = "init" THEN Cur ELSE last.pre

\* a faulty variant of the handler: it reads the service, is suspended, and
\* writes its result after another handler ran
HandleMessageStale(c) ==
    /\ net.conn[c].open
    /\ net.conn[c].pending = 0
    /\ \E m \in NetMessages(Cur) :
          LET r == Dispatch(Stale, m)
          IN /\ Engine(m.op, m.args, r)
             /\ net' = [net EXCEPT
                          !.arrival = Append(@, m),
                          !.conn[c] = [open |-> r.ret.out # "raise",
                                       pending |-> Broadcasts(m, r.ret)]]

\* one turn of the loop of connection c: receive_text returns a message and
\* the handler runs, without being suspended, through the engine call and the
\* building of its response up to its first broadcast; an exception ends
\* the loop and closes the connection
HandleMessage(c) ==
    /\ net.conn[c].open
    /\ net.conn[c].pending = 0
    /\ \E m \in NetMessages(Cur) :
          LET r == Dispatch(Cur, m)
          IN /\ Engine(m.op, m.args, r)
             /\ net' = [net EXCEPT
                          !.arrival = Append(@, m),
                          !.conn[c] = [open |-> r.ret.out # "raise",
                                       pending |-> Broadcasts(m, r.ret)]]

\* connection c resumes from an await of manager.broadcast; after the last
\* one it is back in receive_text
Broadcast(c) ==
    /\ ~hung
    /\ net.conn[c].open
    /\ net.conn[c].pending > 0
    /\ net' = [net EXCEPT !.conn[c].pending = @ - 1]
    /\ UNCHANGED <<elements, component_definitions, assets, next_z_index, history,
                   history_index, id_counter, hung, ops, last, prev, run, drag>>

\* the messages handled in all
MaxNetOps == 2

InitConcurrent == \E G \in {SceneAB, SceneChild} : Start(G, MaxNetOps)

NextConcurrent ==
    \E c \in Conns :
        \/ HandleMessage(c)
        \/ Broadcast(c)

SpecConcurrent == InitConcurrent /\ [][NextConcurrent]_vars

\* the fields of the service after the messages of log were applied to S one
\* after another
RECURSIVE Replay(_, _)
Replay(S, log) ==
    IF log = <<>> THEN S ELSE Replay(Dispatch(S, Head(log)).st, Tail(log))

\* ------------------------------------------------------------------ sessions
\* every variable of the engine and of its observation
engine_vars ==
    <<elements, component_definitions, assets, next_z_index, history,
      history_index, id_counter, hung, ops, last, prev, run, drag>>

\* the start_analysis_session branch of the message loop: create_task of
\* start_interactive_analysis_task, nothing awaited
StartAnalysis(c) ==
    /\ net.conn[c].open
    /\ net.conn[c].pending = 0
    /\ \E t \in Tasks :
          /\ net.tasks[t].pc = "none"
          /\ net' = [net EXCEPT !.tasks[t] = [NoTask EXCEPT !.owner = c,
                                                             !.pc = "started"]]
    /\ UNCHANGED engine_vars

\* start_interactive_analysis_task and DataAnalystAgent.run_task up to its
\* first await: the task ends without a session when the asset is not found,
\* else it is suspended in the send of its first status update
TaskPrepare(t) ==
    /\ net.tasks[t].pc = "started"
    /\ \E found \in BOOLEAN :
          net' = [net EXCEPT !.tasks[t].pc = IF found THEN "preparing" ELSE "finished"]
    /\ UNCHANGED engine_vars

\* run_task resumes from its first send: create_session and
\* register_interactive_session follow it without another await; a send on a
\* connection that is gone either raises (the task ends with no session) or
\* returns, as the transport decides
TaskRegister(t) ==
    /\ net.tasks[t].pc = "preparing"
    /\ \E raised \in IF net.conn[net.tasks[t].owner].open THEN {FALSE} ELSE BOOLEAN :
          net' = [net EXCEPT !.tasks[t] =
                     IF raised THEN [@ EXCEPT !.pc = "finished"]
                     ELSE [@ EXCEPT !.pc = "running", !.registered = TRUE]]
    /\ UNCHANGED engine_vars

\* run_task ends at one of its later awaits: it was cancelled, or its send
\* raised, or the user ended the session; until then it waits. The done
\* callback _cleanup_interactive_session drops the session of a task that ends
TaskStep(t) ==
    /\ net.tasks[t].pc = "running"
    /\ net' = [net EXCEPT !.tasks[t] = [@ EXCEPT !.pc = "finished",
                                                 !.registered = FALSE]]
    /\ UNCHANGED engine_vars

\* the client of connection c goes away: the loop's finally runs
\* cleanup_client_sessions (which awaits nothing): task.cancel() for every
\* session this websocket owns whose task is not done
Disconnect(c) ==
    /\ net.conn[c].open
    /\ net' = [net EXCEPT
                 !.conn[c] = [open |-> FALSE, pending |-> 0],
                 !.tasks = [t \in Tasks |->
                     IF net.tasks[t].registered /\ net.tasks[t].owner = c
                        /\ net.tasks[t].pc # "finished"
                     THEN [net.tasks[t] EXCEPT !.cancelled = TRUE]
                     ELSE net.tasks[t]]]
    /\ UNCHANGED engine_vars

InitSessions == Start(Constructed, MaxOps)

NextSessions ==
    \/ \E c \in Conns : StartAnalysis(c)
    \/ \E c \in Conns : Disconnect(c)
    \/ \E t \in Tasks : TaskPrepare(t)
    \/ \E t \in Tasks : TaskRegister(t)
    \/ \E t \in Tasks : TaskStep(t)

SpecSessions == InitSessions /\ [][NextSessions]_vars

\* ------------------------------------------------------------------ agents
\* the engine calls the tools of the specialists make: creation of a shape and
\* of a slide frame, the frame's addition to the presentation, an update, a
\* batch, a grouping and the definition of a component
AgentCalls(S) ==
    {[op |-> "create", args |-> Payload("shape", BoxA, None, TRUE)],
     [op |-> "create", args |-> Payload("frame", BoxB, None, TRUE)],
     [op |-> "present",
      args |-> [action |-> "add", ordered_frame_ids |-> <<>>, frame_id |-> 1]],
     [op |-> "update",
      args |-> [id |-> 1,
                updates |-> [fields |-> [x |-> 30, y |-> 40], valid |-> TRUE],
                commit |-> TRUE]],
     [op |-> "batch", args |-> [payloads |-> <<Payload("shape", BoxB, None, TRUE)>>]],
     [op |-> "group", args |-> [ids |-> <<1>>]],
     [op |-> "component", args |-> [ids |-> <<1>>, schema |-> GoodSchema]]}

\* the public method of the workspace a tool calls
AgentDispatch(S, m) ==
    IF m.op = "component"
    THEN create_component_from_elements(S, "Card", m.args.ids, m.args.schema)
    ELSE Dispatch(S, m)

\* process_user_prompt up to the plan: no task in it fails the workflow at once
StartWorkflow ==
    /\ ~hung
    /\ net.flow.phase = "idle"
    /\ \E planned \in BOOLEAN :
          net' = [net EXCEPT !.flow =
                     [phase |-> IF planned THEN "running" ELSE "failed",
                      commands |-> 0, log |-> history, cursor |-> history_index]]
    /\ UNCHANGED <<elements, component_definitions, assets, next_z_index, history,
                   history_index, id_counter, hung, ops, last, prev, run, drag>>

\* one task of the plan: the specialist's tool calls the workspace; the task
\* reports success (its command is collected) or status failed, which stops
\* the workflow
AgentTask ==
    /\ net.flow.phase = "running"
    /\ \E m \in AgentCalls(Cur), failed \in BOOLEAN :
          LET r == AgentDispatch(Cur, m)
          IN /\ Engine(m.op, m.args, r)
             /\ net' = [net EXCEPT
                          !.flow.phase = IF failed \/ r.ret.out \in {"raise", "hang"}
                                         THEN "failed" ELSE "running",
                          !.flow.commands =
                              IF ~failed /\ r.ret.out = "ok" THEN @ + 1 ELSE @]

\* the registry has no specialist of the task's name, or run_task raises
AgentMissing ==
    /\ ~hung
    /\ net.flow.phase = "running"
    /\ net' = [net EXCEPT !.flow.phase = "failed"]
    /\ UNCHANGED <<elements, component_definitions, assets, next_z_index, history,
                   history_index, id_counter, hung, ops, last, prev, run, drag>>

\* the finally block of a workflow that did not fail: _commit_history if
\* commands were collected
FinishWorkflow ==
    /\ ~hung
    /\ net.flow.phase = "running"
    /\ net' = [net EXCEPT !.flow.phase = "done"]
    /\ LET T == IF net.flow.commands > 0 THEN commit_history(Cur) ELSE Cur
       IN /\ history' = T.history
          /\ history_index' = T.history_index
    /\ UNCHANGED <<elements, component_definitions, assets, next_z_index,
                   id_counter, hung, ops, last, prev, run, drag>>

\* the engine calls of one workflow
MaxFlowOps == 2

InitWorkflow == \E G \in {Constructed, SceneAB} : Start(G, MaxFlowOps)

NextWorkflow ==
    \/ StartWorkflow
    \/ AgentTask
    \/ AgentMissing
    \/ FinishWorkflow

SpecWorkflow == InitWorkflow /\ [][NextWorkflow]_vars

\* ------------------------------------------------------------------ claims
\* the last call was a reorder_element that returned a non-empty list
Reordered == last.op = "reorder" /\ last.ret.out = "ok"

\* the entries of E whose parentId is p
Scope(E, p) == {E[i] : i \in {j \in DOMAIN E : E[j].val.parentId = p}}

ReorderBase(S, id) ==
    LET p == Get(S.elements, id).parentId
    IN IF p # None /\ Has(S.elements, p) THEN Get(S.elements, p).zIndex + 1 ELSE 0

AllUndone == run.phase = "undo" /\ run.k = run.n
AllRedone == run.phase = "redo" /\ run.k = run.n

Committed(c, S) ==
    /\ c.op \notin {"undo", "redo", "init"}
    /\ S.history_index = c.pre.history_index + 1

\* the cursor of S is not at the end of its log
HasFuture(S) == S.history_index < Len(S.history) - 1

SameHistory(S, T) ==
    /\ S.elements = T.elements
    /\ S.history = T.history
    /\ S.history_index = T.history_index

\* C3: a commit made while the cursor is not at the end of the log keeps the
\* entries up to the cursor, drops the later ones and appends one snapshot, so
\* the cursor is the last index; a redo right after it returns None and changes
\* nothing.
C3_CommitDiscardsRedo ==
    /\ Committed(last, Cur) /\ HasFuture(last.pre) =>
        /\ Len(history) = last.pre.history_index + 2
        /\ SubSeq(history, 1, Len(history) - 1)
               = SubSeq(last.pre.history, 1, last.pre.history_index + 1)
        /\ history_index = Len(history) - 1
        /\ redo(Cur).ret.out = "none"
        /\ redo(Cur).st = Cur
    /\ last.op = "redo" /\ Committed(prev, last.pre) /\ HasFuture(prev.pre) =>
        /\ last.ret.out = "none"
        /\ SameHistory(Cur, last.pre)

\* C3 witness: a redo was tried right after a commit that followed an undo
C3_Witness ==
    /\ last.op = "redo"
    /\ Committed(prev, last.pre)
    /\ HasFuture(prev.pre)

\* C4: undo at the first log entry and redo at the last one return None and
\* leave the collection, the log and the cursor as they were.
C4_BoundaryNoOp ==
    /\ last.op = "undo" /\ last.pre.history_index = 0 =>
        last.ret.out = "none" /\ SameHistory(Cur, last.pre)
    /\ last.op = "redo" /\ ~HasFuture(last.pre) =>
        last.ret.out = "none" /\ SameHistory(Cur, last.pre)

\* C4 witness: after everything was undone, one more undo; then a redo at the
\* end of the log was tried before it
C4_Witness ==
    /\ last.op = "undo"
    /\ last.pre.history_index = 0
    /\ Len(history) >= 2
    /\ prev.op = "undo"
    /\ prev.ret.out = "ok"

\* the ids above the element under key k on its parent chain (at most fuel of
\* them)
RECURSIVE AncestorsOf(_, _, _)
AncestorsOf(E, k, fuel) ==
    LET p == Get(E, k).parentId
    IN IF fuel = 0 \/ p = None \/ ~Has(E, p) THEN {}
       ELSE {p} \cup AncestorsOf(E, p, fuel - 1)

\* the transitive descendants of id: the elements that have id above them
DescendantsOf(E, id) == {k \in Keys(E) : id \in AncestorsOf(E, k, Len(E))}

\* C5: deleteElement(id) on an existing element returns, removes exactly the
\* element and its transitive descendants, returns exactly the removed ids,
\* leaves every other element as it was, and leaves no parentId naming a
\* removed id.
C5_DeleteCascade ==
    last.op = "delete" /\ Has(last.pre.elements, last.args.id) =>
        LET P == last.pre.elements
            gone == {last.args.id} \cup DescendantsOf(P, last.args.id)
        IN /\ last.ret.out = "ok"
           /\ last.ret.ids = gone
           /\ Keys(elements) = Keys(P) \ gone
           /\ \A k \in Keys(elements) :
                  /\ Get(elements, k) = Get(P, k)
                  /\ Get(elements, k).parentId \notin gone

\* the listed ids that name an element of the collection E
Resolved(E, ids) == {ids[i] : i \in {j \in DOMAIN ids : Has(E, ids[j])}}

\* the last call was a group_elements with at least one resolvable id
GroupCalled == last.op = "group" /\ Resolved(last.pre.elements, last.args.ids) # {}

\* C6: groupElements with a resolvable id creates one Group at the union
\* bounding box of the resolved elements' stored boxes, makes it their parent
\* and subtracts its origin from their stored (x, y).
C6_GroupBox ==
    GroupCalled =>
        LET P == last.pre.elements
            res == Resolved(P, last.args.ids)
            new == Keys(elements) \ Keys(P)
            g == Get(elements, CHOOSE k \in new : TRUE)
            min_x == MinOf({Get(P, k).x : k \in res})
            min_y == MinOf({Get(P, k).y : k \in res})
        IN /\ last.ret.out = "ok"
           /\ Cardinality(new) = 1
           /\ g.element_type = "group"
           /\ g.x = min_x
           /\ g.y = min_y
           /\ g.width = MaxOf({Get(P, k).x + Get(P, k).width : k \in res}) - min_x
           /\ g.height = MaxOf({Get(P, k).y + Get(P, k).height : k \in res}) - min_y
           /\ \A k \in res :
                  /\ Get(elements, k).parentId = g.id
                  /\ Get(elements, k).x = Get(P, k).x - g.x
                  /\ Get(elements, k).y = Get(P, k).y - g.y

\* the absolute position of the element under key k is the same in E and F
SameAbsolute(E, F, k) ==
    /\ Has(E, k)
    /\ Has(F, k)
    /\ AbsCoords(E, k).ok
    /\ AbsCoords(F, k) = AbsCoords(E, k)

\* C7: groupElements leaves the absolute position of every grouped element
\* unchanged, whatever its parent was.
C7_GroupKeepsAbsolute ==
    GroupCalled =>
        \A k \in Resolved(last.pre.elements, last.args.ids) :
            AbsCoords(last.pre.elements, k).ok =>
                SameAbsolute(last.pre.elements, elements, k)

\* C8: ungroupElements on a Group or Frame returns the direct children and the
\* container's id, removes the container, gives every child the container's
\* parent, adds the container's offset to its stored (x, y) (its absolute
\* position stays), and gives it a zIndex above every zIndex there was.
C8_Ungroup ==
    /\ last.op = "ungroup"
    /\ Has(last.pre.elements, last.args.id)
    /\ Get(last.pre.elements, last.args.id).element_type \in ContainerTypes
    =>
        LET P == last.pre.elements
            c == Get(P, last.args.id)
            kids == {k \in Keys(P) : Get(P, k).parentId = last.args.id}
        IN /\ last.ret.out = "ok"
           /\ last.ret.els = kids
           /\ last.ret.ids = {last.args.id}
           /\ ~Has(elements, last.args.id)
           /\ \A k \in kids :
                  /\ Has(elements, k)
                  /\ Get(elements, k).parentId = c.parentId
                  /\ Get(elements, k).x = Get(P, k).x + c.x
                  /\ Get(elements, k).y = Get(P, k).y + c.y
                  /\ AbsCoords(P, k).ok => SameAbsolute(P, elements, k)
                  /\ \A j \in Keys(P) : Get(elements, k).zIndex > Get(P, j).zIndex
                  /\ \A j \in kids \ {k} :
                         Get(elements, k).zIndex # Get(elements, j).zIndex

\* the call before the last one was a group_elements that made a group, and the
\* last one was an ungroup_elements of that group
GroupThenUngroup ==
    /\ prev.op = "group"
    /\ prev.ret.out = "ok"
    /\ last.op = "ungroup"
    /\ last.args.id \in prev.ret.els \ Keys(prev.pre.elements)

\* C9: grouping and then ungrouping the new group puts every grouped element
\* back at the absolute position it had, and the group is gone.
C9_GroupUngroupRoundTrip ==
    GroupThenUngroup =>
        /\ ~Has(elements, last.args.id)
        /\ \A k \in Resolved(prev.pre.elements, prev.args.ids) :
               AbsCoords(prev.pre.elements, k).ok =>
                   SameAbsolute(prev.pre.elements, elements, k)

\* the call before the last one reparented an element, and the last one asked
\* to reparent it to the parent it had before
ReparentThenBack ==
    /\ prev.op = "reparent"
    /\ prev.ret.out = "ok"
    /\ last.op = "reparent"
    /\ last.args.child = prev.args.child
    /\ last.args.parent = Get(prev.pre.elements, prev.args.child).parentId

\* C10: reparenting an element and then reparenting it back to its original
\* parent restores its stored (x, y) and its parentId.
C10_ReparentRoundTrip ==
    ReparentThenBack =>
        LET orig == Get(prev.pre.elements, prev.args.child)
            now == Get(elements, last.args.child)
        IN /\ last.ret.out = "ok"
           /\ now.x = orig.x
           /\ now.y = orig.y
           /\ now.parentId = orig.parentId

\* the last call was a reparent_element that returned the child
Reparented == last.op = "reparent" /\ last.ret.out = "ok"

\* C11: a successful reparentElement(child, newParent) sets the child's
\* parentId to newParent, stores the difference between the child's absolute
\* position and the new parent's ((0,0) for root), leaves the child's absolute
\* position as it was, and changes no other element.
C11_Reparent ==
    Reparented =>
        LET P == last.pre.elements
            c == last.args.child
            np == last.args.parent
            cur == AbsCoords(P, c)
            base == IF np = None THEN [ok |-> TRUE, x |-> 0, y |-> 0]
                    ELSE AbsCoords(P, np)
        IN /\ Get(elements, c).parentId = np
           /\ Get(elements, c).x = cur.x - base.x
           /\ Get(elements, c).y = cur.y - base.y
           /\ SameAbsolute(P, elements, c)
           /\ Keys(elements) = Keys(P)
           /\ \A k \in Keys(P) \ {c} : Get(elements, k) = Get(P, k)

\* no element of E is above itself on its parent chain
Acyclic(E) == \A k \in Keys(E) : k \notin AncestorsOf(E, k, Len(E))

\* C12: in every reachable state the ownership graph is cycle-free: no element
\* is its own transitive ancestor through parentId (a reparent of a container
\* onto itself or onto a descendant is rejected).
C12_Acyclic == Acyclic(elements)

\* C13: in every reachable state every non-null parentId names an element of
\* the collection that is a Frame or a Group.
C13_ParentsAreContainers ==
    \A k \in Keys(elements) :
        LET p == Get(elements, k).parentId
        IN p # None =>
               /\ Has(elements, p)
               /\ Get(elements, p).element_type \in ContainerTypes

\* C14: every engine call returns: in no reachable state is the server stuck
\* in a call that never ends.
C14_Terminates == ~hung

\* the zIndex values of the scope are pairwise distinct and have no gap
DenseScope(scope) ==
    LET zs == {e.val.zIndex : e \in scope}
    IN /\ Cardinality(zs) = Cardinality(scope)
       /\ zs # {} => zs = MinOf(zs)..MaxOf(zs)

\* C15: in every reachable state the zIndex values within each ordering scope
\* (the root elements, and the children of each parent) are dense: no gaps, no
\* duplicates.
C15_DenseZ ==
    \A p \in {None} \cup {elements[i].val.parentId : i \in DOMAIN elements} :
        DenseScope(Scope(elements, p))

\* the last call was a create_component_from_elements that returned a
\* definition and an instance
ComponentCreated == last.op = "component" /\ last.ret.out = "ok"

\* the resolved ids of the list, in the order and with the repetitions of the list
ResolvedSeq(E, ids) == SelectSeq(ids, LAMBDA eid : Has(E, eid))

\* C16: a successful createComponentFromElements registers exactly one new
\* definition, adds exactly one component instance whose box is the union
\* bounding box of the resolved sources' stored boxes and whose definition_id
\* is the new definition's id, removes every resolved source with its
\* descendants, returns the removed ids, and stores each source in the
\* template at its stored (x, y) minus the box origin.
C16_ComponentCreated ==
    ComponentCreated =>
        LET P == last.pre.elements
            res == Resolved(P, last.args.ids)
            srcs == ResolvedSeq(P, last.args.ids)
            gone == res \cup UNION {DescendantsOf(P, k) : k \in res}
            new_defs == Keys(component_definitions)
                            \ Keys(last.pre.component_definitions)
            def == Get(component_definitions, CHOOSE d \in new_defs : TRUE)
            new_els == Keys(elements) \ Keys(P)
            inst == Get(elements, CHOOSE k \in new_els : TRUE)
            min_x == MinOf({Get(P, k).x : k \in res})
            min_y == MinOf({Get(P, k).y : k \in res})
        IN /\ Cardinality(new_defs) = 1
           /\ \A d \in Keys(last.pre.component_definitions) :
                  Get(component_definitions, d) = Get(last.pre.component_definitions, d)
           /\ Cardinality(new_els) = 1
           /\ last.ret.els = new_els
           /\ inst.element_type = "component_instance"
           /\ inst.definition_id = def.id
           /\ inst.x = min_x
           /\ inst.y = min_y
           /\ inst.width = MaxOf({Get(P, k).x + Get(P, k).width : k \in res}) - min_x
           /\ inst.height = MaxOf({Get(P, k).y + Get(P, k).height : k \in res}) - min_y
           /\ Keys(P) \ Keys(elements) = gone
           /\ last.ret.ids = gone
           /\ \A k \in Keys(P) \ gone : Get(elements, k) = Get(P, k)
           /\ Len(def.template_elements) = Len(srcs)
           /\ \A i \in DOMAIN srcs :
                  /\ def.template_elements[i].id = srcs[i]
                  /\ def.template_elements[i].x = Get(P, srcs[i]).x - min_x
                  /\ def.template_elements[i].y = Get(P, srcs[i]).y - min_y

\* C16 witness: a component was made of a container that has a child, at a
\* box whose origin is not (0, 0)
C16_Witness ==
    /\ ComponentCreated
    /\ \E k \in Resolved(last.pre.elements, last.args.ids) :
           /\ DescendantsOf(last.pre.elements, k) # {}
           /\ Get(last.pre.elements, k).x > 0
    /\ Cardinality(last.ret.ids) >= 2

\* C17: after a successful createComponentFromElements, for every schema entry
\* whose targetElementId is one of the sources, the new instance's
\* properties[propName] is the value targetProperty had on that source.
C17_PropertiesSeeded ==
    ComponentCreated =>
        LET P == last.pre.elements
            res == Resolved(P, last.args.ids)
            inst == Get(elements, CHOOSE k \in last.ret.els : TRUE)
            entries == last.args.schema.entries
        IN \A i \in DOMAIN entries :
               entries[i].target_element_id \in res =>
                   /\ Has(inst.properties, entries[i].prop_name)
                   /\ Get(inst.properties, entries[i].prop_name)
                          = Get(P, entries[i].target_element_id)[entries[i].target_property]

\* the catalogue, the collection and the history log of S and T are the same
SameDocument(S, T) ==
    /\ S.component_definitions = T.component_definitions
    /\ S.elements = T.elements
    /\ S.history = T.history
    /\ S.history_index = T.history_index

\* C18: createComponentFromElements is all-or-nothing: when no source id
\* resolves or the definition cannot be built, the call returns nothing and
\* the catalogue, the collection and the history log are as before the call;
\* and in every reachable state, were the instance to fail validation after
\* the definition was registered, the call would return nothing and leave the
\* three as they are.
C18_AllOrNothing ==
    /\ last.op = "component"
       /\ (Resolved(last.pre.elements, last.args.ids) = {} \/ ~last.args.schema.valid)
       => last.ret.out = "none" /\ SameDocument(Cur, last.pre)
    /\ \A c \in ComponentInputs(Cur) :
           LET r == create_component(Cur, "Card", c[1], c[2], FALSE)
           IN r.ret.out = "none" /\ SameDocument(r.st, Cur)

\* C18 witness: a call whose sources resolve failed on its schema, in a
\* document that already holds a definition
C18_Witness ==
    /\ last.op = "component"
    /\ Resolved(last.pre.elements, last.args.ids) # {}
    /\ ~last.args.schema.valid
    /\ component_definitions # <<>>

\* the last call was an update_presentation_order with the action "set"
OrderSet == last.op = "present" /\ last.args.action = "set"

\* C19: setPresentationOrder(orderedFrameIds) is a full replace: afterwards
\* every Frame listed has presentationOrder equal to its 0-based position in
\* the list (the first one, if the list repeats it), every Frame not listed
\* has none, and no element that is not a Frame is changed.
C19_SetOrderReplaces ==
    OrderSet =>
        LET P == last.pre.elements
            ids == last.args.ordered_frame_ids
        IN /\ Keys(elements) = Keys(P)
           /\ \A k \in Keys(P) :
                  LET e == Get(elements, k)
                  IN IF e.element_type # "frame" THEN e = Get(P, k)
                     ELSE /\ e = [Get(P, k) EXCEPT !.presentationOrder = e.presentationOrder]
                          /\ IF k \in SeqToSet(ids)
                             THEN /\ e.presentationOrder \in 0..(Len(ids) - 1)
                                  /\ ids[e.presentationOrder + 1] = k
                                  /\ \A j \in 1..e.presentationOrder : ids[j] # k
                             ELSE e.presentationOrder = NoOrder

\* C19 witness: a set listed a frame at a position other than the one it had,
\* left out a frame that was in the presentation, and named an element that
\* is not a frame
C19_Witness ==
    /\ OrderSet
    /\ \E k \in Keys(elements) :
           /\ Get(elements, k).element_type = "frame"
           /\ Get(elements, k).presentationOrder # NoOrder
           /\ Get(elements, k).presentationOrder
                  # Get(last.pre.elements, k).presentationOrder
    /\ \E k \in Keys(elements) :
           /\ Get(last.pre.elements, k).presentationOrder # NoOrder
           /\ Get(elements, k).presentationOrder = NoOrder
    /\ \E k \in SeqToSet(last.args.ordered_frame_ids) :
           Has(elements, k) /\ Get(elements, k).element_type # "frame"

\* the last call was a reorder_slide of two distinct frames that were both in
\* the presentation order
SlideMoved ==
    /\ last.op = "slide"
    /\ last.args.dragged # last.args.target
    /\ {last.args.dragged, last.args.target}
           \subseteq SeqToSet(current_slides(last.pre.elements))

\* C20: reorderSlide(dragged, target, position) on two distinct sequenced
\* frames keeps the set of sequenced frames, puts the dragged frame right
\* before (above) or right after (below) the target, keeps the relative order
\* of the other sequenced frames and numbers presentationOrder 0..k-1.
C20_ReorderSlide ==
    SlideMoved =>
        LET before == current_slides(last.pre.elements)
            after == current_slides(elements)
            d == last.args.dragged
            t == last.args.target
        IN /\ last.ret.out = "ok"
           /\ SeqToSet(after) = SeqToSet(before)
           /\ Len(after) = Len(before)
           /\ IndexOfId(after, d) =
                  IF last.args.position = "below" THEN IndexOfId(after, t) + 1
                  ELSE IndexOfId(after, t) - 1
           /\ SelectSeq(after, LAMBDA k : k # d) = SelectSeq(before, LAMBDA k : k # d)
           /\ \A i \in DOMAIN after :
                  Get(elements, after[i]).presentationOrder = i - 1

\* C20 witness: among four sequenced frames the dragged one went below a
\* target it was not next to, and its position changed
C20_Witness ==
    /\ SlideMoved
    /\ last.args.position = "below"
    /\ Len(current_slides(elements)) >= 4
    /\ current_slides(elements) # current_slides(last.pre.elements)
    /\ LET before == current_slides(last.pre.elements)
       IN IndexOfId(before, last.args.dragged) > IndexOfId(before, last.args.target) + 1

\* the id names a Frame of the collection E
IsFrame(E, id) == Has(E, id) /\ Get(E, id).element_type = "frame"

\* the last call returned its empty result and left the collection, the log
\* and the cursor as they were
Aborted == last.ret.out = "none" /\ SameHistory(Cur, last.pre)

\* C21: a presentation operation given an id that cannot be resolved returns
\* an empty result and changes nothing: a set whose list names an id that is
\* not an existing Frame, an add of such an id, and a reorderSlide whose
\* dragged or target id is not a frame currently in the order.
C21_UnresolvedAborts ==
    /\ last.op = "present" /\ last.args.action = "set"
       /\ (\E i \in DOMAIN last.args.ordered_frame_ids :
               ~IsFrame(last.pre.elements, last.args.ordered_frame_ids[i]))
       => Aborted
    /\ last.op = "present" /\ last.args.action = "add"
       /\ last.args.frame_id # None
       /\ ~IsFrame(last.pre.elements, last.args.frame_id)
       => Aborted
    /\ last.op = "slide"
       /\ ~({last.args.dragged, last.args.target}
                \subseteq SeqToSet(current_slides(last.pre.elements)))
       => Aborted

Unresolvable ==
    \/ last.op \in {"update", "delete", "reorder", "ungroup"}
       /\ ~Has(last.pre.elements, last.args.id)
    \/ last.op = "ungroup"
       /\ Has(last.pre.elements, last.args.id)
       /\ Get(last.pre.elements, last.args.id).element_type \notin ContainerTypes
    \/ last.op = "reparent"
       /\ \/ ~Has(last.pre.elements, last.args.child)
          \/ last.args.parent # None /\ ~Has(last.pre.elements, last.args.parent)
          \/ last.args.parent # None /\ Has(last.pre.elements, last.args.parent)
             /\ Get(last.pre.elements, last.args.parent).element_type
                    \notin ContainerTypes

\* C23: update, delete, reorder, ungroup and reparent of an unknown id, ungroup
\* of a non-container and reparent under a parent that does not exist or is
\* no container return their empty result without an error and leave the
\* collection, the z-order allocator, the log and the cursor as they were.
C23_UnknownIsNoOp ==
    Unresolvable =>
        /\ last.ret.out = "none"
        /\ SameHistory(Cur, last.pre)
        /\ next_z_index = last.pre.next_z_index

\* the payload of the create call names an unknown variant or fails the
\* variant's validation
CreateRejected ==
    /\ last.op = "create"
    /\ \/ last.args.element_type \notin model_map
       \/ ~last.args.valid

\* the patch of the update call fails the validation of the element it names
UpdateRejected ==
    /\ last.op = "update"
    /\ Has(last.pre.elements, last.args.id)
    /\ ~last.args.updates.valid

\* C24: a create whose payload names an unknown variant or fails validation
\* returns None without raising, an update whose patch fails validation is
\* abandoned, and either leaves the collection, the z-order allocator, the
\* log and the cursor as they were.
C24_ValidationChangesNothing ==
    /\ CreateRejected => last.ret.out = "none"
    /\ UpdateRejected => last.ret.out \in {"none", "raise"}
    /\ CreateRejected \/ UpdateRejected =>
        /\ SameHistory(Cur, last.pre)
        /\ next_z_index = last.pre.next_z_index

\* C24 witness: a create of an unknown variant, then an update with a failing
\* patch, on a document that has elements and a log
C24_Witness ==
    /\ UpdateRejected
    /\ prev.op = "create"
    /\ prev.args.element_type \notin model_map
    /\ prev.ret.out = "none"
    /\ Len(elements) >= 2
    /\ Len(history) >= 3

\* the call handed out a fresh z-order to the elements it returned
FreshZ ==
    /\ last.op \in {"create", "ungroup", "reparent"}
    /\ last.ret.out = "ok"

\* C25: an element that was just created, or given a fresh z-order by ungroup
\* or reparent, has a zIndex greater than that of every element the collection
\* held before the call.
C25_FreshZOnTop ==
    FreshZ =>
        \A k \in last.ret.els : \A j \in DOMAIN last.pre.elements :
            Has(elements, k)
                => Get(elements, k).zIndex > last.pre.elements[j].val.zIndex

\* C26: no call changes an entry of the log: a call that commits keeps the
\* entries up to the cursor as they were, drops the ones after it and appends
\* one; every other call (undo and redo included) leaves the whole log as it
\* was, whatever it did to the live elements.
C26_EntriesImmutable ==
    IF Committed(last, Cur)
    THEN /\ Len(history) = last.pre.history_index + 2
         /\ SubSeq(history, 1, Len(history) - 1)
                = SubSeq(last.pre.history, 1, last.pre.history_index + 1)
    ELSE last.op # "init" => history = last.pre.history

\* C26 witness: elements were edited in place and committed after an undo, on
\* a log whose entry at the cursor differs from the new one
C26_Witness ==
    /\ last.op \in {"reorder", "ungroup"}
    /\ last.ret.out = "ok"
    /\ Committed(last, Cur)
    /\ HasFuture(last.pre)
    /\ prev.op = "undo"
    /\ history[Len(history) - 1] # history[Len(history)]

\* the payloads of a batch that validate, in the order they were given
Accepted(payloads) ==
    SelectSeq(payloads, LAMBDA q : q.element_type \in model_map /\ q.valid)

\* C30: create_elements_batch adds one element for every payload that
\* validates, in order, and nothing for the others; it appends one snapshot
\* (the collection after the whole batch) when at least one element was
\* created and leaves the log alone when none was; group_elements with no
\* resolvable id returns nothing and leaves the collection and the log alone.
C30_BatchPartialSuccess ==
    /\ last.op = "batch" =>
        LET good == Accepted(last.args.payloads)
            n0 == Len(last.pre.elements)
        IN /\ (\A i \in DOMAIN good : good[i].id = None) =>
                  /\ Len(elements) = n0 + Len(good)
                  /\ SubSeq(elements, 1, n0) = last.pre.elements
                  /\ \A i \in DOMAIN good :
                         /\ elements[n0 + i].key \notin Keys(last.pre.elements)
                         /\ elements[n0 + i].key \in last.ret.els
                         /\ elements[n0 + i].val.element_type = good[i].element_type
                         /\ elements[n0 + i].val.x = good[i].x
                         /\ elements[n0 + i].val.width = good[i].width
                  /\ Cardinality(last.ret.els) = Len(good)
           /\ \A i \in DOMAIN good :
                  \E k \in last.ret.els :
                      /\ Has(elements, k)
                      /\ good[i].id # None => k = good[i].id
                      /\ Get(elements, k).element_type = good[i].element_type
                      /\ Get(elements, k).x = good[i].x
                      /\ Get(elements, k).width = good[i].width
           /\ Keys(elements) = Keys(last.pre.elements) \cup last.ret.els
           /\ \A k \in Keys(last.pre.elements) \ last.ret.els :
                  Get(elements, k) = Get(last.pre.elements, k)
           /\ good # <<>> =>
                  /\ last.ret.out = "ok"
                  /\ history = Append(SubSeq(last.pre.history, 1,
                                              last.pre.history_index + 1), elements)
                  /\ history_index = last.pre.history_index + 1
           /\ good = <<>> =>
                  /\ last.ret.out = "none"
                  /\ SameHistory(Cur, last.pre)
    /\ last.op = "group" /\ Resolved(last.pre.elements, last.args.ids) = {} =>
        /\ last.ret.out = "none"
        /\ SameHistory(Cur, last.pre)

\* C30 witness: a batch of one payload that fails and one that validates
\* created one element and appended one snapshot
C30_Witness ==
    /\ last.op = "batch"
    /\ Len(last.args.payloads) = 2
    /\ Len(Accepted(last.args.payloads)) = 1
    /\ ~last.args.payloads[1].valid
    /\ Len(elements) = Len(last.pre.elements) + 1
    /\ Len(history) >= 3

ScopeOrder(E, p) ==
    LET sorted == SortByZ(SelectSeq(E, LAMBDA e : e.val.parentId = p))
    IN [i \in DOMAIN sorted |-> sorted[i].key]

\* the 0-based position the command asks for, from position i among n members
AskedPosition(command, i, n) ==
    CASE command = "BRING_FORWARD" -> IF i + 1 < n - 1 THEN i + 1 ELSE n - 1
      [] command = "SEND_BACKWARD" -> IF i - 1 > 0 THEN i - 1 ELSE 0
      [] command = "BRING_TO_FRONT" -> n - 1
      [] command = "SEND_TO_BACK" -> 0

\* C28: a reorder moves the target, within its scope (the elements with the
\* same parentId) sorted by zIndex, from position i to min(i+1, n-1) for
\* BRING_FORWARD, max(i-1, 0) for SEND_BACKWARD, n-1 for BRING_TO_FRONT and 0
\* for SEND_TO_BACK, and keeps the relative order of the other members.
C28_ReorderPosition ==
    Reordered /\ last.args.command \in GlobalCommands =>
        LET id == last.args.id
            p == Get(last.pre.elements, id).parentId
            before == ScopeOrder(last.pre.elements, p)
            i == (CHOOSE j \in DOMAIN before : before[j] = id) - 1
            asked == AskedPosition(last.args.command, i, Len(before))
        IN ScopeOrder(elements, p) = InsertAt(PopAt(before, i), asked, id)

\* every child of E has a zIndex greater than its parent's
ChildrenAbove(E) ==
    \A i \in DOMAIN E :
        Has(E, E[i].val.parentId)
            => E[i].val.zIndex > Get(E, E[i].val.parentId).zIndex

\* C29: a reorder made on a collection in which every child's zIndex is
\* greater than its parent's leaves such a collection (so any sequence of
\* reorders from such a collection does).
C29_ChildrenAboveParent ==
    Reordered /\ ChildrenAbove(last.pre.elements) => ChildrenAbove(elements)

\* C31: a reorder changes nothing but the zIndex of elements that have the
\* target's parentId (the root elements for a root target): every other
\* element is as it was, and the elements of the scope differ from what they
\* were in their zIndex at most.
C31_ReorderFrame ==
    Reordered =>
        LET p == Get(last.pre.elements, last.args.id).parentId
        IN /\ Keys(elements) = Keys(last.pre.elements)
           /\ \A k \in Keys(elements) :
                  LET old == Get(last.pre.elements, k)
                      new == Get(elements, k)
                  IN /\ old.parentId # p => new = old
                     /\ [new EXCEPT !.zIndex = old.zIndex] = old

\* the ids whose element the last call added or changed, and the ids it removed
Touched ==
    {k \in Keys(elements) :
        ~Has(last.pre.elements, k) \/ Get(elements, k) # Get(last.pre.elements, k)}

Removed == Keys(last.pre.elements) \ Keys(elements)

\* C32: whatever a call that returned changed is in what it returned: every
\* element added or changed is among the returned elements and every id
\* removed is among the returned removed ids (undo and redo return the
\* whole restored collection, which replaces the replica).
C32_ReturnComplete ==
    last.op # "init" /\ last.ret.out \in {"ok", "none"} =>
        IF last.op \in {"undo", "redo"}
        THEN last.ret.out = "ok" => last.ret.els = Keys(elements)
        ELSE /\ Touched \subseteq last.ret.els
             /\ Removed \subseteq last.ret.ids

\* C32 witness: a delete removed an element with its descendants and returned
\* all of their ids
C32_Witness ==
    /\ last.op = "delete"
    /\ last.ret.out = "ok"
    /\ Cardinality(Removed) >= 2
    /\ Removed = last.ret.ids

\* C33: when a workflow of process_user_prompt has failed, the history log and
\* the cursor are those of the moment it started.
C33_FailedWorkflowCommitsNothing ==
    net.flow.phase = "failed" =>
        /\ history = net.flow.log
        /\ history_index = net.flow.cursor

\* C34: once a client is disconnected, every analysis task it started is
\* finished or cancelled, whenever the disconnect came between the start of
\* the task and its registration or after it.
C34_DisconnectCancels ==
    \A t \in Tasks :
        /\ net.tasks[t].pc \notin {"none", "finished"}
        /\ ~net.conn[net.tasks[t].owner].open
        => net.tasks[t].cancelled

\* C35: the history log is never empty and the cursor is an index into it,
\* 0 <= history_index <= len(history) - 1, whatever commits, undos and redos
\* were made.
C35_CursorInLog ==
    /\ Len(history) >= 1
    /\ 0 <= history_index
    /\ history_index <= Len(history) - 1

\* a commit that had a redo branch to discard, after which the cursor is the
\* last index of a log that did not grow
C35_Witness ==
    /\ Committed(last, Cur)
    /\ HasFuture(last.pre)
    /\ history_index = Len(history) - 1
    /\ Len(history) <= Len(last.pre.history)

\* C36: when a public operation that appended a snapshot has returned, and
\* after a successful undo or redo, the snapshot at the cursor equals the live
\* element collection.
C36_SnapshotIsLive ==
    /\ last.ret.out = "ok"
    /\ Committed(last, Cur) \/ last.op \in {"undo", "redo"}
    => SameDict(AtCursor(Cur), elements)

\* the frames that have a presentationOrder
Sequenced == {k \in Keys(elements) : /\ Get(elements, k).element_type = "frame"
                                     /\ Get(elements, k).presentationOrder # NoOrder}

\* C37: the presentationOrder values of the sequenced frames are pairwise
\* distinct and are exactly 0..k-1 for the k sequenced frames, after any
\* sequence of set, add, reorderSlide, delete, ungroup, undo and redo.
C37_OrderDense ==
    /\ \A a, b \in Sequenced :
           a # b => Get(elements, a).presentationOrder # Get(elements, b).presentationOrder
    /\ {Get(elements, k).presentationOrder : k \in Sequenced}
           = 0..(Cardinality(Sequenced) - 1)

\* C38: an undo or a redo leaves the component-definition catalogue and the
\* asset records as they were before it.
C38_UndoKeepsCatalogue ==
    last.op \in {"undo", "redo"} =>
        /\ component_definitions = last.pre.component_definitions
        /\ assets = last.pre.assets

\* an undo went back over the creation of a component while asset records
\* exist: the definition and the records are still there
C38_Witness ==
    /\ last.op = "undo" /\ last.ret.out = "ok"
    /\ prev.op = "component" /\ prev.ret.out = "ok"
    /\ component_definitions # <<>>
    /\ assets # {}

\* the ids the last call created: what a successful create or batch returned
Created == IF last.op \in {"create", "batch"} /\ last.ret.out = "ok"
           THEN last.ret.els ELSE {}

\* C39: every element a successful create or batch made is stored under an id
\* that was not present before, every element present before is unchanged,
\* and each entry's key is the id of the element stored under it.
C39_CreateAddsFresh ==
    /\ \A k \in Created : ~Has(last.pre.elements, k)
    /\ Created # {} =>
           \A k \in Keys(last.pre.elements) :
               Has(elements, k) /\ Get(elements, k) = Get(last.pre.elements, k)
    /\ \A i \in DOMAIN elements : elements[i].key = elements[i].val.id

====
